---- MODULE Spec2Model ----
(***************************************************************************)
(* Model of the movie catalog search of database.py and of its callers in  *)
(* bot.py: the query normalizer clean_text_for_search, the candidate       *)
(* ranker _process_fuzzy_candidates, the Database operations               *)
(* super_search_movies_advanced, add_movie, remove_movie_by_imdb,          *)
(* get_movie_by_imdb and rebuild_clean_titles, and the handlers            *)
(* search_movie_handler and add_movie_command with safe_db_call.           *)
(*                                                                         *)
(* A Python str is a sequence of one-character strings.                    *)
(*                                                                         *)
(* Specifications: Spec (the operations on a reliable store), SpecClean    *)
(* (the normalizer), SpecBig (a search of six seasons), SpecRank (the      *)
(* ranker), SpecStore (with rebuild and a store that fails), SpecAdd (two  *)
(* /add_movie handlers), SpecBot and SpecBotLive (the search handler),     *)
(* SpecPunct (queries of punctuation), SpecRetry (the retry loops),        *)
(* SpecBoot (init_db), SpecSem (the permits of DB_SEMAPHORE), SpecHook     *)
(* (bot_webhook); and of main.py: SpecIndex                                *)
(* (sync_add_movie_to_db_and_algolia) and SpecRate (check_rate_limit).     *)
(***************************************************************************)
EXTENDS Integers, Sequences, FiniteSets, TLC

VARIABLES
    text,        \* SpecClean: the string typed so far
    cleaned,     \* SpecClean: clean_text_for_search(text)
    recleaned,   \* SpecClean: clean_text_for_search(cleaned)
    cphase,      \* SpecClean: "input" | "cleaned" | "recleaned"
    movies,      \* the movies table: a set of rows
    pc,          \* super_search_movies_advanced: the statement it is at
    query,       \* super_search_movies_advanced: its argument query
    limit,       \* super_search_movies_advanced: its argument limit
    q_clean,     \* super_search_movies_advanced: its local q_clean
    tokens,      \* super_search_movies_advanced: its local tokens
    candidates,  \* super_search_movies_advanced: its local candidates
    result,      \* super_search_movies_advanced: the list it returns
    stage,       \* which return statement produced result
    stable,      \* no row was inserted or deleted since the search began
    last,        \* the previous call's arguments and result, while comparable
    ret,         \* what the last add_movie / remove / get / rebuild call returned
    rk,          \* SpecRank: the arguments and the outcome of a ranker call
    attempt,     \* super_search_movies_advanced: its loop variable attempt
    rb,          \* rebuild_clean_titles: the statement it is at, total, attempt
    cmd,         \* add_movie_command: the state of each running handler
    hd,          \* search_movie_handler: the state of the running handler
    sem,         \* DB_SEMAPHORE: the permits that are free
    call,        \* a Database call in its retry loop: op, arg, attempt, error
    boot,        \* init_db: the statement it is at, attempt, whether the tables exist
    task,        \* safe_db_call: where each task is: idle, wait (for a permit), run
    idx,         \* main.py: the movies table, the Algolia index, the running add call
    rl,          \* main.py: the clock, user_sessions, the last check_rate_limit call
    wh           \* bot_webhook: the secret, the request it handles, its response, the tasks

cleanVars == <<text, cleaned, recleaned, cphase, rk>>
searchVars == <<pc, query, limit, q_clean, tokens, candidates, result, stage, stable, last,
                attempt>>
dbVars == <<movies, ret>>
botVars == <<rb, cmd, hd, sem>>
\* the variables of the specifications of the retry loops, the start-up,
\* the permits, the index, the rate limit and the webhook
sysVars == <<call, boot, task, idx, rl, wh>>
besidesCall == <<boot, task, idx, rl, wh>>
besidesBoot == <<call, task, idx, rl, wh>>
besidesTask == <<call, boot, idx, rl, wh>>
besidesIdx == <<call, boot, task, rl, wh>>
besidesRl == <<call, boot, task, idx, wh>>
besidesWh == <<call, boot, task, idx, rl>>
auxVars == <<rb, cmd, hd, sem, sysVars>>
vars == <<text, cleaned, recleaned, cphase, movies, pc, query, limit, q_clean,
          tokens, candidates, result, stage, stable, last, ret, rk,
          attempt, rb, cmd, hd, sem,
          call, boot, task, idx, rl, wh>>

----------------------------------------------------------------------------
(* Characters *)

LowerCase == <<"a","b","c","d","e","f","g","h","i","j","k","l","m",
               "n","o","p","q","r","s","t","u","v","w","x","y","z">>
UpperCase == <<"A","B","C","D","E","F","G","H","I","J","K","L","M",
               "N","O","P","Q","R","S","T","U","V","W","X","Y","Z">>
Digits == {"0","1","2","3","4","5","6","7","8","9"}
LowerSet == {LowerCase[i] : i \in 1..26}

\* str.lower() on one character
LowerChar(c) ==
    IF \E i \in 1..26 : UpperCase[i] = c
    THEN LowerCase[CHOOSE i \in 1..26 : UpperCase[i] = c]
    ELSE c

\* [a-z0-9]
IsAlnum(c) == c \in LowerSet \cup Digits

\* after step 1 and 2 of clean_text_for_search the text holds only [a-z0-9 ],
\* where \w is [a-z0-9], \d is [0-9] and \s is the space
IsWord(c) == IsAlnum(c)
IsDigit(c) == c \in Digits
IsSpace(c) == c = " "

Lower(t) == [i \in 1..Len(t) |-> LowerChar(t[i])]

----------------------------------------------------------------------------
(* clean_text_for_search *)

RECURSIVE ReplaceNonAlnumFrom(_, _)
\* re.sub(r'[^a-z0-9]+', ' ', text): every maximal run becomes one space
ReplaceNonAlnumFrom(t, i) ==
    IF i > Len(t) THEN <<>>
    ELSE IF IsAlnum(t[i]) THEN <<t[i]>> \o ReplaceNonAlnumFrom(t, i + 1)
    ELSE IF i = 1 \/ IsAlnum(t[i - 1]) THEN <<" ">> \o ReplaceNonAlnumFrom(t, i + 1)
    ELSE ReplaceNonAlnumFrom(t, i + 1)

ReplaceNonAlnum(t) == ReplaceNonAlnumFrom(t, 1)

\* \b between positions i-1 and i (1-based, i in 1..Len(t)+1)
WordBoundary(t, i) ==
    LET before == i > 1 /\ IsWord(t[i - 1])
        after  == i <= Len(t) /\ IsWord(t[i])
    IN before # after

\* t has the literal w at position i
HasAt(t, i, w) ==
    /\ i + Len(w) - 1 <= Len(t)
    /\ \A k \in 1..Len(w) : t[i + k - 1] = w[k]

RECURSIVE SkipSpaces(_, _)
\* \s* (greedy): the first position at or after i that holds no space
SkipSpaces(t, i) ==
    IF i <= Len(t) /\ IsSpace(t[i]) THEN SkipSpaces(t, i + 1) ELSE i

\* \d{1,2}\b at position k: the position after the match, 0 when there is none.
\* Two digits are tried first, then one.
DigitsEnd(t, k) ==
    IF k <= Len(t) /\ IsDigit(t[k])
    THEN IF k + 1 <= Len(t) /\ IsDigit(t[k + 1]) /\ WordBoundary(t, k + 2)
         THEN k + 2
         ELSE IF WordBoundary(t, k + 1) THEN k + 1 ELSE 0
    ELSE 0

SeasonWords == << <<"s">>, <<"s","e","a","s","o","n">> >>

\* (s|season)\s*\d{1,2}\b with the alternative w, at position i
AltEnd(t, i, w) ==
    IF HasAt(t, i, w)
    THEN LET sp == SkipSpaces(t, i + Len(w))
             \* \s* gives spaces back one at a time when \d fails
             tries == {DigitsEnd(t, k) : k \in (i + Len(w))..sp} \ {0}
         IN IF tries = {} THEN 0 ELSE CHOOSE e \in tries : \A f \in tries : f <= e
    ELSE 0

\* \b(s|season)\s*\d{1,2}\b at position i: the position after the match, or 0
SeasonMatchEnd(t, i) ==
    IF ~WordBoundary(t, i) THEN 0
    ELSE IF AltEnd(t, i, SeasonWords[1]) # 0 THEN AltEnd(t, i, SeasonWords[1])
    ELSE AltEnd(t, i, SeasonWords[2])

RECURSIVE StripSeasonFrom(_, _)
\* re.sub(r'\b(s|season)\s*\d{1,2}\b', '', text): leftmost matches, left to right
StripSeasonFrom(t, i) ==
    IF i > Len(t) THEN <<>>
    ELSE LET e == SeasonMatchEnd(t, i)
         IN IF e # 0 THEN StripSeasonFrom(t, e)
            ELSE <<t[i]>> \o StripSeasonFrom(t, i + 1)

StripSeason(t) == StripSeasonFrom(t, 1)

RECURSIVE CollapseSpacesFrom(_, _)
\* re.sub(r'\s+', ' ', text)
CollapseSpacesFrom(t, i) ==
    IF i > Len(t) THEN <<>>
    ELSE IF ~IsSpace(t[i]) THEN <<t[i]>> \o CollapseSpacesFrom(t, i + 1)
    ELSE IF i = 1 \/ ~IsSpace(t[i - 1]) THEN <<" ">> \o CollapseSpacesFrom(t, i + 1)
    ELSE CollapseSpacesFrom(t, i + 1)

CollapseSpaces(t) == CollapseSpacesFrom(t, 1)

RECURSIVE Strip(_)
\* str.strip()
Strip(t) ==
    IF t = <<>> THEN t
    ELSE IF IsSpace(t[1]) THEN Strip(Tail(t))
    ELSE IF IsSpace(t[Len(t)]) THEN Strip(SubSeq(t, 1, Len(t) - 1))
    ELSE t

clean_text_for_search(t) ==
    IF t = <<>> THEN <<>>
    ELSE Strip(CollapseSpaces(StripSeason(ReplaceNonAlnum(Lower(t)))))

----------------------------------------------------------------------------
(* str operations used by the search *)

RECURSIVE SplitFrom(_, _, _)
SplitFrom(t, i, cur) ==
    IF i > Len(t) THEN (IF cur = <<>> THEN <<>> ELSE <<cur>>)
    ELSE IF IsSpace(t[i])
         THEN (IF cur = <<>> THEN <<>> ELSE <<cur>>) \o SplitFrom(t, i + 1, <<>>)
         ELSE SplitFrom(t, i + 1, Append(cur, t[i]))

\* str.split(): the maximal runs of non-space characters
Split(t) == SplitFrom(t, 1, <<>>)

\* clean_title LIKE 'p%' (a token holds no LIKE wildcard: it is [a-z0-9]+)
StartsWith(t, p) == Len(p) <= Len(t) /\ SubSeq(t, 1, Len(p)) = p

\* p in t, and clean_title.contains(p)
Contains(t, p) == \E i \in 1..(Len(t) - Len(p) + 1) : HasAt(t, i, p)

\* the characters of the model in code point order
CodePoints == <<" ", "!", "-", "0","1","2","3","4","5","6","7","8","9">>
              \o UpperCase \o LowerCase

Ord(c) == CHOOSE i \in 1..Len(CodePoints) : CodePoints[i] = c

RECURSIVE StrLess(_, _)
\* a < b on Python str
StrLess(a, b) ==
    IF b = <<>> THEN FALSE
    ELSE IF a = <<>> THEN TRUE
    ELSE IF Ord(a[1]) # Ord(b[1]) THEN Ord(a[1]) < Ord(b[1])
    ELSE StrLess(Tail(a), Tail(b))

Min2(a, b) == IF a <= b THEN a ELSE b
Max2(a, b) == IF a >= b THEN a ELSE b

\* s[:n]
Take(s, n) == SubSeq(s, 1, Min2(n, Len(s)))

----------------------------------------------------------------------------
(* _process_fuzzy_candidates.  The five thefuzz scores of a candidate are   *)
(* the library's answers: S[i] is the record of the scores of candidate i.  *)

MaxCandidates == 100
PreFilter == 40
Bonus == 3
MaxScore == 100
Threshold == 50
MaxFinal == 20

\* the maximum without s_consonant_partial
BaseScoreNoConsonant(sc) ==
    Max2(sc.w_ratio, Max2(sc.token_set, Max2(sc.token_sort, sc.partial)))

\* max(s_w_ratio, s_token_set, s_token_sort, s_partial, s_consonant_partial)
BaseScore(sc) ==
    Max2(sc.w_ratio, Max2(sc.token_set, Max2(sc.token_sort,
        Max2(sc.partial, sc.consonant_partial))))

\* all(t in clean_title for t in tokens if t)
AllTokensIn(clean_title, toks) ==
    \A i \in 1..Len(toks) : toks[i] # <<>> => Contains(clean_title, toks[i])

\* a bonus without the cap at 100
FinalScoreNoCap(clean_title, sc, toks) ==
    IF AllTokensIn(clean_title, toks)
    THEN BaseScore(sc) + Bonus
    ELSE BaseScore(sc)

\* the score appended to results for a candidate that is not skipped
FinalScore(clean_title, sc, toks) ==
    IF AllTokensIn(clean_title, toks)
    THEN Min2(MaxScore, BaseScore(sc) + Bonus)
    ELSE BaseScore(sc)

\* a loop without the WRatio prefilter of line 80
SkippedEmptyOnly(clean_title, sc) == clean_title = <<>>

\* the two `continue` statements of the loop
Skipped(clean_title, sc) == clean_title = <<>> \/ sc.w_ratio < PreFilter

RECURSIVE ScoreLoop(_, _, _, _)
\* the for loop: results, in the order of the candidates
ScoreLoop(cands, S, toks, i) ==
    IF i > Len(cands) THEN <<>>
    ELSE IF Skipped(cands[i].clean_title, S[i]) THEN ScoreLoop(cands, S, toks, i + 1)
    ELSE << [score |-> FinalScore(cands[i].clean_title, S[i], toks),
             imdb_id |-> cands[i].imdb_id, title |-> cands[i].title] >>
         \o ScoreLoop(cands, S, toks, i + 1)

\* key=lambda x: (-x[0], x[2])
KeyLess(a, b) ==
    \/ a.score > b.score
    \/ a.score = b.score /\ StrLess(a.title, b.title)

RECURSIVE InsertSorted(_, _)
\* list.sort is stable: x goes behind the entries whose key is not greater
InsertSorted(sorted, x) ==
    IF sorted = <<>> THEN <<x>>
    ELSE IF KeyLess(x, sorted[1]) THEN <<x>> \o sorted
    ELSE <<sorted[1]>> \o InsertSorted(Tail(sorted), x)

RECURSIVE SortResults(_)
SortResults(rs) ==
    IF rs = <<>> THEN <<>>
    ELSE InsertSorted(SortResults(SubSeq(rs, 1, Len(rs) - 1)), rs[Len(rs)])

\* {'imdb_id': imdb, 'title': t}
Entry(r) == [imdb_id |-> r.imdb_id, title |-> r.title]
Entries(rs) == [i \in 1..Len(rs) |-> Entry(rs[i])]

\* results after the sort, and those of them with sc >= 50
SortedResults(cands, qry, S) ==
    SortResults(ScoreLoop(Take(cands, MaxCandidates), S,
                          Split(clean_text_for_search(qry)), 1))

\* a filter that keeps the entries at or below the threshold
AcceptedBelow(cands, qry, S, t) ==
    SelectSeq(SortedResults(cands, qry, S), LAMBDA r : r.score <= t)

\* line 101 with the literal 50 as the parameter t: `if sc >= t`
AcceptedAt(cands, qry, S, t) ==
    SelectSeq(SortedResults(cands, qry, S), LAMBDA r : r.score >= t)

\* the list the ranker returns with the threshold t
RankAt(cands, qry, S, t) ==
    IF cands = <<>> THEN <<>>
    ELSE Take(Entries(AcceptedAt(cands, qry, S, t)), MaxFinal)

Accepted(cands, qry, S) == AcceptedAt(cands, qry, S, Threshold)

_process_fuzzy_candidates(cands, qry, S) == RankAt(cands, qry, S, Threshold)

----------------------------------------------------------------------------
(* The catalog: titles, queries and rows of the model *)

T_Titanic  == <<"T","i","t","a","n","i","c">>
T_Kantara  == <<"K","a","n","t","a","r","a"," ","2","0","2","2">>
MirzapurSeason(d) == <<"M","i","r","z","a","p","u","r"," ","S","e","a","s","o","n"," ">> \o <<d>>
T_Mirzapur1 == MirzapurSeason("1")
T_Mirzapur2 == MirzapurSeason("2")
MirzapurTitles == {MirzapurSeason(d) : d \in {"1","2","3","4","5","6"}}
T_Punct    == <<"!","!","!">>

C_mirzapur == <<"m","i","r","z","a","p","u","r">>

Q_taitanic == <<"t","a","i","t","a","n","i","c">>
Q_ktra     == <<"k","t","r","a">>
Q_mirzapur2 == <<"m","i","r","z","a","p","u","r"," ","s","e","a","s","o","n"," ","2">>
Q_mirza    == <<"m","i","r","z","a">>
Q_zapur    == <<"z","a","p","u","r">>
Q_two      == <<"k","a","n","t","a","r","a"," ","t","i","t","a","n","i","c">>

\* the arguments add_movie is called with
AddInputs ==
    { [imdb_id |-> "tt0120338", title |-> T_Titanic,   year |-> "1997",
       file_id |-> "f1", message_id |-> 11, channel_id |-> 1],
      [imdb_id |-> "auto_abc",  title |-> T_Kantara,   year |-> "2022",
       file_id |-> "f2", message_id |-> 12, channel_id |-> 1],
      [imdb_id |-> "m1",        title |-> T_Mirzapur1, year |-> "2018",
       file_id |-> "f3", message_id |-> 13, channel_id |-> 1],
      [imdb_id |-> "m2",        title |-> T_Mirzapur2, year |-> "2020",
       file_id |-> "f4", message_id |-> 14, channel_id |-> 1],
      [imdb_id |-> "p1",        title |-> T_Punct,     year |-> "None",
       file_id |-> "f5", message_id |-> 15, channel_id |-> 2],
      [imdb_id |-> "m1",        title |-> T_Titanic,   year |-> "1997",
       file_id |-> "f6", message_id |-> 16, channel_id |-> 2] }

Ids == {a.imdb_id : a \in AddInputs}
Queries == {Q_taitanic, Q_ktra, Q_mirzapur2, T_Punct, Q_mirza, Q_zapur, Q_two}
Limits == {1, 20}

\* the most rows the model's catalog holds
MaxMovies == 2

\* thefuzz on the pairs of the model that reach the ranker:
\* WRatio(clean_title, q_clean), token_set_ratio(title, query),
\* token_sort_ratio(title, query), partial_ratio(clean_title, q_clean),
\* partial_ratio(_consonant_signature(title), q_cons)
Scores(w, ts, tso, p, cp) ==
    [w_ratio |-> w, token_set |-> ts, token_sort |-> tso, partial |-> p,
     consonant_partial |-> cp]

fuzz(title, qry) ==
    CASE title \in MirzapurTitles /\ qry \in {Q_mirza, Q_zapur}
            -> Scores(90, 45, 45, 100, 100)
      [] title = T_Kantara /\ qry = Q_two -> Scores(70, 74, 52, 80, 67)
      [] title = T_Titanic /\ qry = Q_two -> Scores(90, 100, 64, 100, 100)
      [] title = T_Mirzapur2 /\ qry = Q_mirzapur2 -> Scores(100, 100, 100, 100, 100)
      [] title \in MirzapurTitles \ {T_Mirzapur2} /\ qry = Q_mirzapur2
            -> Scores(100, 94, 94, 100, 94)
      [] title = T_Titanic /\ qry = Q_taitanic -> Scores(93, 93, 93, 92, 100)
      [] title = T_Kantara /\ qry = Q_ktra -> Scores(68, 50, 50, 75, 67)
      [] OTHER -> Scores(0, 0, 0, 0, 0)

----------------------------------------------------------------------------
(* The store *)

RECURSIVE Arrangements(_, _)
\* the sequences of n distinct elements of M
Arrangements(M, n) ==
    IF n = 0 THEN {<<>>}
    ELSE UNION {{<<x>> \o s : s \in Arrangements(M \ {x}, n - 1)} : x \in M}

\* a SELECT ... LIMIT lim without ORDER BY: the matching rows in any order
Rows(M, lim) == Arrangements(M, Min2(lim, Cardinality(M)))

\* select(Movie.imdb_id, Movie.title, Movie.clean_title)
Row(m) == [imdb_id |-> m.imdb_id, title |-> m.title, clean_title |-> m.clean_title]

ExactLimit == 5
AnyLimit == 100
FallbackLimit == 100
MinContainsLen == 2

ExactRows(q) == {Row(m) : m \in {x \in movies : x.clean_title = q}}
PrefixAllRows(toks) ==
    {Row(m) : m \in {x \in movies : \A i \in 1..Len(toks) : StartsWith(x.clean_title, toks[i])}}
PrefixAnyRows(toks) ==
    {Row(m) : m \in {x \in movies : \E i \in 1..Len(toks) : StartsWith(x.clean_title, toks[i])}}
ContainsRows(tok) ==
    {Row(m) : m \in {x \in movies : Contains(x.clean_title, tok)}}

\* a loop that appends every row, without found_ids
AppendAll(cands, rows, i) == cands \o rows

RECURSIVE AppendNew(_, _, _)
\* for row in rows: if row[0] not in found_ids: candidates.append(row)
AppendNew(cands, rows, i) ==
    IF i > Len(rows) THEN cands
    ELSE IF \E k \in 1..Len(cands) : cands[k].imdb_id = rows[i].imdb_id
         THEN AppendNew(cands, rows, i + 1)
         ELSE AppendNew(Append(cands, rows[i]), rows, i + 1)

\* add_movie that stores the lowercased title, not the cleaned one
NewMovieLowerOnly(imdb_id, title, year, file_id, message_id, channel_id) ==
    [imdb_id |-> imdb_id, title |-> title, clean_title |-> Lower(title),
     year |-> year, file_id |-> file_id,
     message_id |-> message_id, channel_id |-> channel_id]

\* Movie(imdb_id=..., title=title, clean_title=clean, ...)
NewMovie(imdb_id, title, year, file_id, message_id, channel_id) ==
    [imdb_id |-> imdb_id, title |-> title,
     clean_title |-> clean_text_for_search(title),
     year |-> year, file_id |-> file_id,
     message_id |-> message_id, channel_id |-> channel_id]

NoLast == [valid |-> FALSE, query |-> <<>>, limit |-> 0, result |-> <<>>]
NoRank == [called |-> FALSE, cands |-> <<>>, query |-> <<>>, S |-> <<>>,
           results |-> <<>>, accepted |-> <<>>, final |-> <<>>]
NoRet == [op |-> "none", imdb_id |-> "", val |-> "None", movie |-> {}]

\* rebuild_clean_titles is not running
NoRebuild == [pc |-> "idle", total |-> 0, attempt |-> 0]

\* the admin handlers that can run /add_movie at the same time
Handlers == {"h1", "h2"}

\* add_movie_command is not running
NoCmd == [pc |-> "idle", arg |-> [imdb_id |-> "", file_id |-> ""], reply |-> "none"]

\* search_movie_handler is not running
NoHandler == [pc |-> "idle", text |-> <<>>, original_query |-> <<>>,
              checked |-> FALSE, top |-> <<>>, how |-> "none", reply |-> "none",
              timed_out |-> FALSE]

\* DB_SEMAPHORE = asyncio.Semaphore(10)
Permits == 10

\* no Database call is in its retry loop
NoArg == [imdb_id |-> "", file_id |-> ""]
NoCall == [op |-> "none", arg |-> NoArg, pc |-> "idle", attempt |-> 0,
           first |-> "none", reinit |-> FALSE, error |-> "none"]

\* init_db has not been called: no attempt made, the tables do not exist
NoBoot == [pc |-> "idle", attempt |-> 0, tables |-> FALSE, error |-> "none",
           log |-> <<>>]

\* the handlers beyond the permits of DB_SEMAPHORE that run at the same time
ExtraTasks == 1

\* the tasks that call safe_db_call at the same time
Tasks == 1..(Permits + ExtraTasks)

\* no task is in safe_db_call
NoTasks == [t \in Tasks |-> "idle"]

\* main.py: sync_add_movie_to_db_and_algolia is not running, the movies
\* table of main.py and the Algolia index are empty
NoIndex == [pc |-> "idle", title |-> <<>>, post_id |-> 0, new_id |-> 0,
            rows |-> {}, objects |-> {}, ret |-> "none"]

\* main.py: RATE_LIMIT_SECONDS = 1
RATE_LIMIT_SECONDS == 1

\* the clock of time.time() is read in ticks; the model follows it for MaxTime ticks
TicksPerSecond == 2
MaxTime == 5

\* the reading of the clock when the bot starts: more than a second after the epoch
StartTime == RATE_LIMIT_SECONDS * TicksPerSecond

\* the users that send messages
Users == {1, 2}

\* user_sessions is empty: no user has a session; last_action 0 is what
\* .get('last_action', 0) reads when the key is missing
NoSession == [has |-> FALSE, last_action |-> 0]
NoRate == [now |-> StartTime, sessions |-> [u \in Users |-> NoSession],
           op |-> "none", user |-> 0, ret |-> FALSE]

\* the requests the model follows
MaxRequests == 3

\* bot.py is not imported yet: WEBHOOK_SECRET is not read, no request has come
NoHook == [pc |-> "import", secret |-> "", header |-> "", valid |-> FALSE,
           raised |-> "none", status |-> 0, ok |-> FALSE, added |-> 0,
           requests |-> 0, tasks |-> 0, fed |-> 0]

\* none of the later specifications' operations is running
SysIdle ==
    /\ call = NoCall
    /\ boot = NoBoot
    /\ task = NoTasks
    /\ idx = NoIndex
    /\ rl = NoRate
    /\ wh = NoHook

AuxIdle ==
    /\ SysIdle
    /\ attempt = 0
    /\ rb = NoRebuild
    /\ cmd = [h \in Handlers |-> NoCmd]
    /\ hd = NoHandler
    /\ sem = Permits

DbIdle ==
    /\ AuxIdle
    /\ movies = {}
    /\ pc = "idle"
    /\ query = <<>>
    /\ limit = 0
    /\ q_clean = <<>>
    /\ tokens = <<>>
    /\ candidates = <<>>
    /\ result = <<>>
    /\ stage = "none"
    /\ stable = TRUE
    /\ last = NoLast
    /\ ret = NoRet
    /\ rk = NoRank

----------------------------------------------------------------------------
(* SpecClean: clean_text_for_search applied once and twice to every string *)
(* over CleanAlphabet of at most MaxLen characters                         *)

MaxLen == 6
CleanAlphabet == {"s", "1", " ", "A", "-"}

InitClean ==
    /\ text = <<>>
    /\ cleaned = <<>>
    /\ recleaned = <<>>
    /\ cphase = "input"
    /\ DbIdle

TypeChar(c) ==
    /\ cphase = "input"
    /\ Len(text) < MaxLen
    /\ text' = Append(text, c)
    /\ UNCHANGED <<cleaned, recleaned, cphase, rk>>
    /\ UNCHANGED <<searchVars, dbVars, auxVars>>

CleanOnce ==
    /\ cphase = "input"
    /\ cleaned' = clean_text_for_search(text)
    /\ cphase' = "cleaned"
    /\ UNCHANGED <<text, recleaned, rk>>
    /\ UNCHANGED <<searchVars, dbVars, auxVars>>

CleanTwice ==
    /\ cphase = "cleaned"
    /\ recleaned' = clean_text_for_search(cleaned)
    /\ cphase' = "recleaned"
    /\ UNCHANGED <<text, cleaned, rk>>
    /\ UNCHANGED <<searchVars, dbVars, auxVars>>

NextClean ==
    \/ \E c \in CleanAlphabet : TypeChar(c)
    \/ CleanOnce
    \/ CleanTwice

SpecClean == InitClean /\ [][NextClean]_vars

\* C2: clean_text_for_search(clean_text_for_search(x)) = clean_text_for_search(x)
\* for every string x.
C2_Idempotent == cphase = "recleaned" => recleaned = cleaned

----------------------------------------------------------------------------
(* Spec: the Database operations, interleaved at their awaits.  One search *)
(* runs at a time; add_movie, remove_movie_by_imdb and get_movie_by_imdb   *)
(* of other handlers run between its statements.                           *)

\* the dict get_movie_by_imdb returns
MovieDict(m) ==
    [imdb_id |-> m.imdb_id, title |-> m.title, year |-> m.year,
     file_id |-> m.file_id, channel_id |-> m.channel_id, message_id |-> m.message_id]

\* the imdb_id column of a set of rows
ImdbIds(M) == {m.imdb_id : m \in M}

\* what a committed write does to the observers of the search
Committed(newMovies) ==
    /\ movies' = newMovies
    /\ stable' = IF newMovies # movies /\ pc # "idle" THEN FALSE ELSE stable
    /\ last' = IF newMovies # movies THEN NoLast ELSE last

\* a unique index that ignores file_id
DuplicateImdbOnly(a) == \E m \in movies : m.imdb_id = a.imdb_id

\* the INSERT violates imdb_id's unique index or the constraint uq_file_id
Duplicate(a) == \E m \in movies : m.imdb_id = a.imdb_id \/ m.file_id = a.file_id

\* what a call of add_movie does to the table and what it returns
AddMovieCall(a) ==
    IF Duplicate(a)
    THEN \* IntegrityError: rollback, return "duplicate"
         /\ Committed(movies)
         /\ ret' = [op |-> "add_movie", imdb_id |-> a.imdb_id,
                    val |-> "duplicate", movie |-> {}]
    ELSE /\ Cardinality(movies) < MaxMovies
         /\ Committed(movies \cup {NewMovie(a.imdb_id, a.title, a.year, a.file_id,
                                           a.message_id, a.channel_id)})
         /\ ret' = [op |-> "add_movie", imdb_id |-> a.imdb_id,
                    val |-> "True", movie |-> {}]

add_movie(a) ==
    /\ AddMovieCall(a)
    /\ UNCHANGED <<pc, query, limit, q_clean, tokens, candidates, result, stage, attempt>>
    /\ UNCHANGED <<cleanVars, auxVars>>

\* max_retries of the Database methods
max_retries == 2

\* a DELETE without its WHERE clause
remove_all_movies(id, db_ok) ==
    /\ IF db_ok
       THEN /\ Committed({})
            /\ ret' = [op |-> "remove_movie_by_imdb", imdb_id |-> id,
                       val |-> "True",
                       movie |-> {MovieDict(m) : m \in {x \in movies : x.imdb_id = id}}]
       ELSE /\ Committed(movies)
            /\ ret' = [op |-> "remove_movie_by_imdb", imdb_id |-> id,
                       val |-> "False", movie |-> {}]
    /\ UNCHANGED <<pc, query, limit, q_clean, tokens, candidates, result, stage, attempt>>
    /\ UNCHANGED <<cleanVars, auxVars>>

\* db_ok: the DELETE and its commit go through, in the first attempt or in
\* the retry; otherwise the except branch rolls back and returns False.
\* ret.movie keeps the row the DELETE removed
remove_movie_by_imdb(id, db_ok) ==
    /\ IF db_ok
       THEN /\ Committed({m \in movies : m.imdb_id # id})
            /\ ret' = [op |-> "remove_movie_by_imdb", imdb_id |-> id,
                       val |-> "True",
                       movie |-> {MovieDict(m) : m \in {x \in movies : x.imdb_id = id}}]
       ELSE /\ Committed(movies)
            /\ ret' = [op |-> "remove_movie_by_imdb", imdb_id |-> id,
                       val |-> "False", movie |-> {}]
    /\ UNCHANGED <<pc, query, limit, q_clean, tokens, candidates, result, stage, attempt>>
    /\ UNCHANGED <<cleanVars, auxVars>>

\* what a call of get_movie_by_imdb returns
GetMovieCall(id) ==
    LET found == {m \in movies : m.imdb_id = id}
    IN ret' = [op |-> "get_movie_by_imdb", imdb_id |-> id,
               val |-> IF found = {} THEN "None" ELSE "found",
               movie |-> {MovieDict(m) : m \in found}]

get_movie_by_imdb(id) ==
    /\ GetMovieCall(id)
    /\ UNCHANGED <<movies, searchVars>>
    /\ UNCHANGED <<cleanVars, auxVars>>

\* a search that answers "no match" with a placeholder entry
ReturnPlaceholder(how) ==
    /\ result' = <<[imdb_id |-> "", title |-> <<>>]>>
    /\ stage' = how
    /\ pc' = "done"

\* return [] (line 358, 416, 422)
ReturnEmpty(how) ==
    /\ result' = <<>>
    /\ stage' = how
    /\ pc' = "done"

\* lines 354-358: q_clean, tokens, `if not tokens: return []`
SearchCall(q, l) ==
    /\ pc = "idle"
    /\ query' = q
    /\ limit' = l
    /\ q_clean' = clean_text_for_search(q)
    /\ tokens' = Split(q_clean')
    /\ candidates' = <<>>
    /\ attempt' = 0
    /\ stable' = TRUE
    /\ last' = IF last.valid /\ last.query = q /\ last.limit = l THEN last ELSE NoLast
    /\ IF tokens' = <<>>
       THEN ReturnEmpty("no_tokens")
       ELSE pc' = "exact" /\ UNCHANGED <<result, stage>>

Search(q, l) ==
    /\ SearchCall(q, l)
    /\ UNCHANGED <<dbVars, cleanVars, auxVars>>

\* lines 363-369: 1. Exact Match
ExactMatch ==
    /\ pc = "exact"
    /\ \E exact_matches \in Rows(ExactRows(q_clean), ExactLimit) :
          IF exact_matches # <<>>
          THEN /\ result' = Take(Entries(exact_matches), limit)
               /\ stage' = "exact"
               /\ pc' = "done"
          ELSE /\ pc' = "prefix_all"
               /\ UNCHANGED <<result, stage>>
    /\ UNCHANGED <<query, limit, q_clean, tokens, candidates, stable, last, attempt>>
    /\ UNCHANGED <<dbVars, cleanVars, auxVars>>

\* lines 396-400, 410, 416: where the search goes once the prefix queries are done
AfterPrefix(cands) ==
    IF cands # <<>> THEN "fuzzy"
    ELSE IF Len(tokens[1]) > MinContainsLen THEN "fallback"
    ELSE "return"

Goto(where) ==
    IF where = "return"
    THEN ReturnEmpty("nomatch")
    ELSE pc' = where /\ UNCHANGED <<result, stage>>

\* lines 371-380: 2. All Tokens Prefix Match
PrefixAll ==
    /\ pc = "prefix_all"
    /\ \E rows \in Rows(PrefixAllRows(tokens), limit) :
          /\ candidates' = AppendNew(candidates, rows, 1)
          /\ IF Len(candidates') < limit
             THEN pc' = "prefix_any" /\ UNCHANGED <<result, stage>>
             ELSE Goto(AfterPrefix(candidates'))
    /\ UNCHANGED <<query, limit, q_clean, tokens, stable, last, attempt>>
    /\ UNCHANGED <<dbVars, cleanVars, auxVars>>

\* lines 382-394: 3. Any Token Prefix Match
PrefixAny ==
    /\ pc = "prefix_any"
    /\ \E rows \in Rows(PrefixAnyRows(tokens), AnyLimit) :
          /\ candidates' = AppendNew(candidates, rows, 1)
          /\ Goto(AfterPrefix(candidates'))
    /\ UNCHANGED <<query, limit, q_clean, tokens, stable, last, attempt>>
    /\ UNCHANGED <<dbVars, cleanVars, auxVars>>

\* lines 396-407: 4. Fallback, first token 'contains'
Fallback ==
    /\ pc = "fallback"
    /\ \E rows \in Rows(ContainsRows(tokens[1]), FallbackLimit) :
          /\ candidates' = AppendNew(candidates, rows, 1)
          /\ Goto(IF candidates' # <<>> THEN "fuzzy" ELSE "return")
    /\ UNCHANGED <<query, limit, q_clean, tokens, stable, last, attempt>>
    /\ UNCHANGED <<dbVars, cleanVars, auxVars>>

\* the library's scores of the candidates for this query
LibScores(cands, qry) == [i \in 1..Len(cands) |-> fuzz(cands[i].title, qry)]

\* lines 409-416: 5. Fuzzy Match
Fuzzy ==
    /\ pc = "fuzzy"
    /\ LET fuzzy_results ==
              _process_fuzzy_candidates(candidates, query, LibScores(candidates, query))
       IN IF fuzzy_results # <<>>
          THEN /\ result' = Take(fuzzy_results, limit)
               /\ stage' = "fuzzy"
               /\ pc' = "done"
          ELSE ReturnEmpty("nomatch")
    /\ UNCHANGED <<query, limit, q_clean, tokens, candidates, stable, last, attempt>>
    /\ UNCHANGED <<dbVars, cleanVars, auxVars>>

\* the caller has the list; the call's locals are gone
SearchExit ==
    /\ pc = "done"
    /\ pc' = "idle"
    /\ last' = IF stable
               THEN [valid |-> TRUE, query |-> query, limit |-> limit, result |-> result]
               ELSE NoLast
    /\ query' = <<>>
    /\ limit' = 0
    /\ q_clean' = <<>>
    /\ tokens' = <<>>
    /\ candidates' = <<>>
    /\ result' = <<>>
    /\ stage' = "none"
    /\ stable' = TRUE
    /\ attempt' = 0

SearchReturn ==
    /\ SearchExit
    /\ UNCHANGED <<dbVars, cleanVars, auxVars>>

\* lines 417-422: a statement of the session raises; reinit is what
\* _handle_db_error returns.  The loop runs the body again, or the call
\* returns [] from the except branch
SearchError(reinit) ==
    /\ pc \in {"exact", "prefix_all", "prefix_any", "fallback"}
    /\ IF reinit /\ attempt < max_retries - 1
       THEN /\ attempt' = attempt + 1
            /\ candidates' = <<>>
            /\ pc' = "exact"
            /\ UNCHANGED <<result, stage>>
       ELSE /\ ReturnEmpty("error")
            /\ UNCHANGED <<attempt, candidates>>
    /\ UNCHANGED <<query, limit, q_clean, tokens, stable, last>>
    /\ UNCHANGED <<dbVars, cleanVars, auxVars>>

\* asyncio.wait_for cancels the call: its locals are gone, nothing is returned
SearchCancel ==
    /\ pc' = "idle"
    /\ query' = <<>>
    /\ limit' = 0
    /\ q_clean' = <<>>
    /\ tokens' = <<>>
    /\ candidates' = <<>>
    /\ result' = <<>>
    /\ stage' = "none"
    /\ stable' = TRUE
    /\ attempt' = 0
    /\ UNCHANGED last

Init ==
    /\ text = <<>>
    /\ cleaned = <<>>
    /\ recleaned = <<>>
    /\ cphase = "input"
    /\ DbIdle

Next ==
    \/ \E a \in AddInputs : add_movie(a)
    \/ \E id \in Ids : remove_movie_by_imdb(id, TRUE)
    \/ \E id \in Ids : get_movie_by_imdb(id)
    \/ \E q \in Queries, l \in Limits : Search(q, l)
    \/ ExactMatch
    \/ PrefixAll
    \/ PrefixAny
    \/ Fallback
    \/ Fuzzy
    \/ SearchReturn

Spec == Init /\ [][Next]_vars

----------------------------------------------------------------------------
(* SpecBig: one search of a catalog that holds six seasons of one show,     *)
(* all with the clean_title 'mirzapur', as six add_movie calls leave it     *)

BigCatalog ==
    {NewMovie(a.imdb_id, a.title, "2018", a.file_id, 20, 1) :
        a \in { [imdb_id |-> "m1", title |-> MirzapurSeason("1"), file_id |-> "f3"],
                [imdb_id |-> "m2", title |-> MirzapurSeason("2"), file_id |-> "f4"],
                [imdb_id |-> "m3", title |-> MirzapurSeason("3"), file_id |-> "f7"],
                [imdb_id |-> "m4", title |-> MirzapurSeason("4"), file_id |-> "f8"],
                [imdb_id |-> "m5", title |-> MirzapurSeason("5"), file_id |-> "f9"],
                [imdb_id |-> "m6", title |-> MirzapurSeason("6"), file_id |-> "f10"] }}

BigQueries == {Q_mirzapur2, Q_zapur, Q_ktra}

InitBig ==
    /\ text = <<>>
    /\ cleaned = <<>>
    /\ recleaned = <<>>
    /\ cphase = "input"
    /\ movies = BigCatalog
    /\ pc = "idle"
    /\ query = <<>>
    /\ limit = 0
    /\ q_clean = <<>>
    /\ tokens = <<>>
    /\ candidates = <<>>
    /\ result = <<>>
    /\ stage = "none"
    /\ stable = TRUE
    /\ last = NoLast
    /\ ret = NoRet
    /\ rk = NoRank
    /\ AuxIdle

NextBig ==
    \/ \E q \in BigQueries, l \in Limits : Search(q, l)
    \/ ExactMatch
    \/ PrefixAll
    \/ PrefixAny
    \/ Fallback
    \/ Fuzzy

SpecBig == InitBig /\ [][NextBig]_vars

----------------------------------------------------------------------------
(* SpecRank: _process_fuzzy_candidates called with every list of at most    *)
(* MaxCands distinct rows of RankRows, every query of RankQueries and       *)
(* every answer of the library among LibAnswers                             *)

MaxCands == 2

RankRows ==
    { [imdb_id |-> "i1", title |-> <<"B">>, clean_title |-> <<"b">>],
      [imdb_id |-> "i2", title |-> <<"A">>, clean_title |-> <<"a">>],
      [imdb_id |-> "i3", title |-> <<"A">>, clean_title |-> <<"a", "b">>],
      [imdb_id |-> "i4", title |-> <<"!">>, clean_title |-> <<>>] }

RankQueries == { <<"a">>, <<"!">> }

\* thefuzz answers 0 for WRatio and partial_ratio when one side is empty;
\* otherwise any of these
LibAnswers(clean_title, qry) ==
    IF clean_title = <<>> \/ clean_text_for_search(qry) = <<>>
    THEN { Scores(0, ts, ts, 0, cp) : ts \in {0, 60}, cp \in {0, 60} }
    ELSE { Scores(30, 60, 60, 60, 60),
           Scores(45, 45, 45, 45, 45),
           Scores(48, 48, 40, 40, 40),
           Scores(60, 45, 45, 45, 45),
           Scores(45, 70, 45, 45, 45),
           Scores(45, 45, 71, 45, 45),
           Scores(45, 45, 45, 72, 45),
           Scores(45, 45, 45, 45, 73),
           Scores(99, 45, 45, 45, 45),
           Scores(100, 100, 100, 100, 100) }

RankLists == UNION {Arrangements(RankRows, n) : n \in 0..MaxCands}

InitRank ==
    /\ text = <<>>
    /\ cleaned = <<>>
    /\ recleaned = <<>>
    /\ cphase = "input"
    /\ DbIdle

RankCall(cands, qry) ==
    /\ ~rk.called
    /\ \E S \in [1..Len(cands) -> UNION {LibAnswers(r.clean_title, qry) : r \in RankRows}] :
          /\ \A i \in 1..Len(cands) : S[i] \in LibAnswers(cands[i].clean_title, qry)
          /\ rk' = [called |-> TRUE, cands |-> cands, query |-> qry, S |-> S,
                    results |-> SortedResults(cands, qry, S),
                    accepted |-> Accepted(cands, qry, S),
                    final |-> _process_fuzzy_candidates(cands, qry, S)]
    /\ UNCHANGED <<text, cleaned, recleaned, cphase, searchVars, dbVars, auxVars>>

\* one more candidate than the ranker returns at most
LongList ==
    [i \in 1..(MaxFinal + 1) |->
        [imdb_id |-> ToString(i), title |-> <<"A">>, clean_title |-> <<"a">>]]

\* the library's answers for LongList: the first k candidates are perfect
\* matches, the others get the answer low
LongScores(k, low) ==
    [i \in 1..Len(LongList) |-> IF i <= k THEN Scores(100, 100, 100, 100, 100) ELSE low]

\* answers below the threshold, above it, and below the prefilter
LongLows ==
    { Scores(45, 45, 45, 45, 45), Scores(60, 45, 45, 45, 45), Scores(30, 60, 60, 60, 60) }

\* a call with more candidates than the cut of line 101 lets through
RankCallLong(k, low) ==
    /\ ~rk.called
    /\ LET qry == <<"a">>
           S == LongScores(k, low)
       IN rk' = [called |-> TRUE, cands |-> LongList, query |-> qry, S |-> S,
                 results |-> SortedResults(LongList, qry, S),
                 accepted |-> Accepted(LongList, qry, S),
                 final |-> _process_fuzzy_candidates(LongList, qry, S)]
    /\ UNCHANGED <<text, cleaned, recleaned, cphase, searchVars, dbVars, auxVars>>

NextRank ==
    \/ \E cands \in RankLists, qry \in RankQueries : RankCall(cands, qry)
    \/ \E k \in 0..Len(LongList), low \in LongLows : RankCallLong(k, low)

SpecRank == InitRank /\ [][NextRank]_vars

----------------------------------------------------------------------------
(* rebuild_clean_titles: the UPDATE that PostgreSQL runs, and SpecStore:    *)
(* the Database operations with rebuild_clean_titles and a store that can  *)
(* fail, on a small catalog                                                *)

\* the backspace character.  In a PostgreSQL regular expression \b is the
\* character-entry escape for backspace; its word boundaries are \m, \M, \y
Backspace == "\\b"

\* \m at position i: the beginning of a word
PgWordStart(t, i) ==
    /\ i <= Len(t)
    /\ IsWord(t[i])
    /\ (i = 1 \/ ~IsWord(t[i - 1]))

\* \d{1,2}\b at position k: one or two digits and a backspace character;
\* the position after the match, 0 when there is none
PgDigitsEnd(t, k) ==
    IF k <= Len(t) /\ IsDigit(t[k])
    THEN IF k + 2 <= Len(t) /\ IsDigit(t[k + 1]) /\ t[k + 2] = Backspace
         THEN k + 3
         ELSE IF k + 1 <= Len(t) /\ t[k + 1] = Backspace THEN k + 2 ELSE 0
    ELSE 0

\* (s|season)\s*\d{1,2}\b with the alternative w, at position i
PgAltEnd(t, i, w) ==
    IF HasAt(t, i, w)
    THEN LET sp == SkipSpaces(t, i + Len(w))
             tries == {PgDigitsEnd(t, k) : k \in (i + Len(w))..sp} \ {0}
         IN IF tries = {} THEN 0 ELSE CHOOSE e \in tries : \A f \in tries : f <= e
    ELSE 0

\* \m(s|season)\s*\d{1,2}\b at position i: the position after the longest
\* match, or 0
PgSeasonMatchEnd(t, i) ==
    IF ~PgWordStart(t, i) THEN 0
    ELSE Max2(PgAltEnd(t, i, SeasonWords[1]), PgAltEnd(t, i, SeasonWords[2]))

RECURSIVE PgStripSeasonFrom(_, _)
\* regexp_replace(..., '\m(s|season)\s*\d{1,2}\b', '', 'g')
PgStripSeasonFrom(t, i) ==
    IF i > Len(t) THEN <<>>
    ELSE LET e == PgSeasonMatchEnd(t, i)
         IN IF e # 0 THEN PgStripSeasonFrom(t, e)
            ELSE <<t[i]>> \o PgStripSeasonFrom(t, i + 1)

PgStripSeason(t) == PgStripSeasonFrom(t, 1)

\* trim(regexp_replace(regexp_replace(regexp_replace(lower(title), ...))))
PgCleanTitle(title) ==
    Strip(CollapseSpaces(PgStripSeason(ReplaceNonAlnum(Lower(title)))))

\* the WHERE clause of the UPDATE (clean_title is NOT NULL)
NeedsUpdate(m) ==
    \/ m.clean_title = <<>>
    \/ m.clean_title # PgCleanTitle(m.title)

\* lines 515-516: select(func.count(Movie.id))
rebuild_count ==
    /\ rb.pc \in {"idle", "retry"}
    /\ rb' = [pc |-> "counted", total |-> Cardinality(movies), attempt |-> rb.attempt]
    /\ UNCHANGED <<searchVars, dbVars, cleanVars, cmd, hd, sem, sysVars>>

\* an UPDATE that also stores the lowercased title
rebuild_update_title ==
    /\ rb.pc = "counted"
    /\ Committed({[m EXCEPT !.clean_title = PgCleanTitle(m.title),
                            !.title = Lower(m.title)] : m \in movies})
    /\ ret' = [op |-> "rebuild_clean_titles", imdb_id |-> "", val |-> "ok",
               movie |-> {},
               updated |-> Cardinality({m \in movies : NeedsUpdate(m)}),
               total |-> rb.total]
    /\ rb' = NoRebuild
    /\ UNCHANGED <<pc, query, limit, q_clean, tokens, candidates, result, stage, attempt>>
    /\ UNCHANGED <<cleanVars, cmd, hd, sem, sysVars>>

\* lines 519-552: the UPDATE, the commit and `return (rowcount, total)`
rebuild_update ==
    /\ rb.pc = "counted"
    /\ Committed({[m EXCEPT !.clean_title = PgCleanTitle(m.title)] : m \in movies})
    /\ ret' = [op |-> "rebuild_clean_titles", imdb_id |-> "", val |-> "ok",
               movie |-> {},
               updated |-> Cardinality({m \in movies : NeedsUpdate(m)}),
               total |-> rb.total]
    /\ rb' = NoRebuild
    /\ UNCHANGED <<pc, query, limit, q_clean, tokens, candidates, result, stage, attempt>>
    /\ UNCHANGED <<cleanVars, cmd, hd, sem, sysVars>>

\* lines 553-558: a statement raises; reinit is what _handle_db_error returns
rebuild_error(reinit) ==
    /\ IF reinit /\ rb.attempt < max_retries - 1
       THEN /\ rb' = [pc |-> "retry", total |-> 0, attempt |-> rb.attempt + 1]
            /\ UNCHANGED ret
       ELSE /\ rb' = NoRebuild
            /\ ret' = [op |-> "rebuild_clean_titles", imdb_id |-> "", val |-> "error",
                       movie |-> {}, updated |-> 0, total |-> 0]
    /\ UNCHANGED <<movies, searchVars, cleanVars, cmd, hd, sem, sysVars>>

StoreInputs ==
    {a \in AddInputs : a.file_id \in {"f3", "f4", "f6"}}

StoreIds == {a.imdb_id : a \in StoreInputs}
StoreQueries == {Q_mirzapur2}

NextStore ==
    \/ \E a \in StoreInputs : add_movie(a)
    \/ \E id \in StoreIds, db_ok \in BOOLEAN : remove_movie_by_imdb(id, db_ok)
    \/ \E id \in StoreIds : get_movie_by_imdb(id)
    \/ rebuild_count
    \/ rebuild_update
    \/ \E reinit \in BOOLEAN : rebuild_error(reinit)
    \/ \E q \in StoreQueries : Search(q, 20)
    \/ ExactMatch
    \/ PrefixAll
    \/ PrefixAny
    \/ Fallback
    \/ Fuzzy
    \/ SearchReturn

SpecStore == Init /\ [][NextStore]_vars

----------------------------------------------------------------------------
(* SpecAdd: add_movie_command run by two admin handlers at the same time    *)

\* what the admins send: the same imdb_id with two files, and one file
\* under two imdb_ids
CmdInputs ==
    { [imdb_id |-> "tt0120338", title |-> T_Titanic, year |-> "1997",
       file_id |-> "f1", message_id |-> 11, channel_id |-> 1],
      [imdb_id |-> "tt0120338", title |-> T_Titanic, year |-> "1997",
       file_id |-> "f2", message_id |-> 12, channel_id |-> 1],
      [imdb_id |-> "auto_abc",  title |-> T_Kantara, year |-> "2022",
       file_id |-> "f1", message_id |-> 11, channel_id |-> 1] }

CmdIds == {a.imdb_id : a \in CmdInputs}

\* lines 586-601: the command is parsed
CmdStart(h, a) ==
    /\ cmd[h].pc = "idle"
    /\ cmd' = [cmd EXCEPT ![h] = [pc |-> "check", arg |-> a, reply |-> "none"]]
    /\ UNCHANGED <<searchVars, dbVars, cleanVars, rb, hd, sem, sysVars>>

\* lines 603-606: existing = get_movie_by_imdb(imdb_id)
CmdCheck(h) ==
    /\ cmd[h].pc = "check"
    /\ GetMovieCall(cmd[h].arg.imdb_id)
    /\ cmd' = [cmd EXCEPT ![h] =
                 IF ret'.val = "found"
                 THEN [pc |-> "idle", arg |-> @.arg, reply |-> "exists"]
                 ELSE [pc |-> "add", arg |-> @.arg, reply |-> "none"]]
    /\ UNCHANGED <<movies, searchVars, cleanVars, rb, hd, sem, sysVars>>

\* lines 608-617: success = add_movie(...); "duplicate" is a true value
CmdAdd(h) ==
    /\ cmd[h].pc = "add"
    /\ AddMovieCall(cmd[h].arg)
    /\ cmd' = [cmd EXCEPT ![h] =
                 [pc |-> "idle", arg |-> @.arg,
                  reply |-> IF ret'.val \in {"True", "duplicate"} THEN "added" ELSE "error"]]
    /\ UNCHANGED <<pc, query, limit, q_clean, tokens, candidates, result, stage, attempt>>
    /\ UNCHANGED <<cleanVars, rb, hd, sem, sysVars>>

NextAdd ==
    \/ \E h \in Handlers, a \in CmdInputs : CmdStart(h, a)
    \/ \E h \in Handlers : CmdCheck(h)
    \/ \E h \in Handlers : CmdAdd(h)
    \/ \E id \in CmdIds : remove_movie_by_imdb(id, TRUE)

SpecAdd == Init /\ [][NextAdd]_vars

----------------------------------------------------------------------------
(* SpecBot: search_movie_handler, one message at a time, on a catalog of    *)
(* two records, with a store that can fail and calls that can time out     *)

MinQueryLen == 2
SearchLimit == 20

\* a handler without the length check
TooShortNever(q) == FALSE

\* line 441: len(original_query) < 2
TooShort(q) == Len(q) < MinQueryLen

Q_titanic == <<"t","i","t","a","n","i","c">>

\* message.text of the messages the user sends
BotTexts ==
    { <<"a">>, <<" ","a"," ">>, <<"z","z">>, <<"!","!">>,
      Q_titanic, Q_mirza, Q_zapur }

BotCatalog ==
    { NewMovie("tt0120338", T_Titanic, "1997", "f1", 11, 1),
      NewMovie("m1", T_Mirzapur1, "2018", "f3", 13, 1) }

\* lines 430-438: a message arrives; admitted is what
\* ensure_capacity_or_inform returns
H_Receive(t, admitted) ==
    /\ hd.pc = "idle"
    /\ hd' = IF admitted
             THEN [NoHandler EXCEPT !.pc = "length", !.text = t,
                                    !.timed_out = hd.timed_out]
             ELSE [NoHandler EXCEPT !.text = t, !.reply = "overflow",
                                    !.timed_out = hd.timed_out]
    /\ UNCHANGED <<searchVars, dbVars, cleanVars, rb, cmd, sem, sysVars>>

\* lines 440-443: original_query = message.text.strip(), the length check
H_LengthCheck ==
    /\ hd.pc = "length"
    /\ LET original_query == Strip(hd.text)
       IN hd' = IF TooShort(original_query)
                THEN [hd EXCEPT !.pc = "idle", !.original_query = original_query,
                                !.reply = "too_short"]
                ELSE [hd EXCEPT !.pc = "announce", !.original_query = original_query,
                                !.checked = TRUE]
    /\ UNCHANGED <<searchVars, dbVars, cleanVars, rb, cmd, sem, sysVars>>

\* lines 445-447: searching_msg; sent is whether safe_tg_call returned it
H_Announce(sent) ==
    /\ hd.pc = "announce"
    /\ hd' = IF sent
             THEN [hd EXCEPT !.pc = "call", !.reply = "searching"]
             ELSE [hd EXCEPT !.pc = "idle"]
    /\ UNCHANGED <<searchVars, dbVars, cleanVars, rb, cmd, sem, sysVars>>

\* lines 449, 121-122: safe_db_call takes a permit and starts the search
H_Call ==
    /\ hd.pc = "call"
    /\ sem > 0
    /\ sem' = sem - 1
    /\ SearchCall(hd.original_query, SearchLimit)
    /\ hd' = [hd EXCEPT !.pc = "wait"]
    /\ UNCHANGED <<dbVars, cleanVars, rb, cmd, sysVars>>

\* line 122: the search returns within the timeout; the permit is released
H_Return ==
    /\ hd.pc = "wait"
    /\ SearchExit
    /\ sem' = sem + 1
    /\ hd' = [hd EXCEPT !.pc = "reply", !.top = result, !.how = stage]
    /\ UNCHANGED <<dbVars, cleanVars, rb, cmd, sysVars>>

\* a timeout that leaves the `async with` without releasing the permit
H_TimeoutKeepsPermit ==
    /\ hd.pc = "wait"
    /\ SearchCancel
    /\ hd' = [hd EXCEPT !.pc = "reply", !.top = <<>>, !.how = "timeout",
                        !.timed_out = TRUE]
    /\ UNCHANGED <<dbVars, cleanVars, rb, cmd, sem, sysVars>>

\* lines 123-125: asyncio.TimeoutError, `return default`
H_Timeout ==
    /\ hd.pc = "wait"
    /\ SearchCancel
    /\ sem' = sem + 1
    /\ hd' = [hd EXCEPT !.pc = "reply", !.top = <<>>, !.how = "timeout",
                        !.timed_out = TRUE]
    /\ UNCHANGED <<dbVars, cleanVars, rb, cmd, sysVars>>

\* lines 451-461: the reply to the user
H_Reply ==
    /\ hd.pc = "reply"
    /\ hd' = [hd EXCEPT !.pc = "idle",
                        !.reply = IF hd.top = <<>> THEN "no_match" ELSE "results"]
    /\ UNCHANGED <<searchVars, dbVars, cleanVars, rb, cmd, sem, sysVars>>

\* the handler is cancelled: by handler_timeout (lines 104-111), which tells
\* the user to try again, or by the webhook's wait_for (lines 294-298)
H_Cancel(by) ==
    /\ hd.pc # "idle"
    /\ IF hd.pc = "wait"
       THEN SearchCancel /\ sem' = sem + 1
       ELSE UNCHANGED <<searchVars, sem>>
    /\ hd' = [hd EXCEPT !.pc = "idle", !.how = "cancelled",
                        !.reply = IF by = "handler_timeout"
                                  THEN "request_timeout" ELSE @]
    /\ UNCHANGED <<dbVars, cleanVars, rb, cmd, sysVars>>

InitBot ==
    /\ text = <<>>
    /\ cleaned = <<>>
    /\ recleaned = <<>>
    /\ cphase = "input"
    /\ movies = BotCatalog
    /\ pc = "idle"
    /\ query = <<>>
    /\ limit = 0
    /\ q_clean = <<>>
    /\ tokens = <<>>
    /\ candidates = <<>>
    /\ result = <<>>
    /\ stage = "none"
    /\ stable = TRUE
    /\ last = NoLast
    /\ ret = NoRet
    /\ rk = NoRank
    /\ AuxIdle

NextBot ==
    \/ \E t \in BotTexts, admitted \in BOOLEAN : H_Receive(t, admitted)
    \/ H_LengthCheck
    \/ \E sent \in BOOLEAN : H_Announce(sent)
    \/ H_Call
    \/ ExactMatch
    \/ PrefixAll
    \/ PrefixAny
    \/ Fallback
    \/ Fuzzy
    \/ \E reinit \in BOOLEAN : SearchError(reinit)
    \/ H_Return
    \/ H_Timeout
    \/ H_Reply
    \/ \E by \in {"handler_timeout", "update_timeout"} : H_Cancel(by)

SpecBot == InitBot /\ [][NextBot]_vars

\* the timer of asyncio.wait_for fires when the call is still running, and
\* the event loop resumes the handler once safe_db_call has returned
SpecBotLive == SpecBot /\ WF_vars(H_Timeout) /\ WF_vars(H_Reply)

----------------------------------------------------------------------------
(* Claims *)

\* a search has returned and no row was inserted or deleted while it ran:
\* movies is the catalog every statement of the call has seen
Returned == pc = "done" /\ stable

InResult(id) == \E i \in 1..Len(result) : result[i].imdb_id = id

\* the ranker's score of a returned entry for the query of the call
ResultScore(e) ==
    FinalScore(clean_text_for_search(e.title), fuzz(e.title, query), tokens)

\* C1: Normalization consistency.  If the catalog holds a record whose
\* clean_title equals clean_text_for_search(T), then
\* super_search_movies_advanced(T) (default limit 20) returns a list that
\* contains that record's imdb_id.
C1_NormalizationConsistency ==
    (Returned /\ limit = 20) =>
        \A m \in movies :
            m.clean_title = clean_text_for_search(query) => InResult(m.imdb_id)

\* C3: Determinism.  Two calls of super_search_movies_advanced(q, limit) with
\* the same q and limit and no insert or delete in between return the same
\* entries in the same order.
C3_Deterministic ==
    (Returned /\ last.valid) => result = last.result

\* C4: every returned list is ordered by score descending, entries of equal
\* score by title ascending, for the exact-match stage and the fuzzy stage.
C4_Ordered ==
    Returned =>
        \A i, j \in 1..Len(result) :
            i < j =>
                \/ ResultScore(result[i]) > ResultScore(result[j])
                \/ /\ ResultScore(result[i]) = ResultScore(result[j])
                   /\ ~StrLess(result[j].title, result[i].title)

\* the number of accepted candidates of the call: the rows of the exact
\* match, or the candidates the ranker scores at 50 or more
NumAccepted ==
    IF stage = "exact"
    THEN Cardinality(ExactRows(q_clean))
    ELSE Len(Accepted(candidates, query, LibScores(candidates, query)))

\* C5: search(query, limit) returns the first `limit` accepted candidates,
\* all of them when there are fewer than `limit`: never more than `limit`
\* entries and not fewer than `limit` when at least `limit` were accepted.
C5_FirstLimitEntries ==
    (Returned /\ stage \in {"exact", "fuzzy"}) =>
        Len(result) = Min2(limit, NumAccepted)

\* C7: Scenario Titanic.  With the record {tt0120338, 'Titanic', 'titanic'}
\* in the catalog, search('taitanic') returns this id within the first 3
\* results.
C7_Titanic ==
    (/\ Returned
     /\ query = Q_taitanic
     /\ \E m \in movies : m.imdb_id = "tt0120338" /\ m.title = T_Titanic)
    => \E i \in 1..Min2(3, Len(result)) : result[i].imdb_id = "tt0120338"

\* C8: Scenario Kantara.  With the record {auto_abc, 'Kantara 2022',
\* 'kantara 2022'} in the catalog, search('ktra') returns this id.
C8_Kantara ==
    (/\ Returned
     /\ query = Q_ktra
     /\ \E m \in movies : m.imdb_id = "auto_abc" /\ m.title = T_Kantara)
    => InResult("auto_abc")

\* C9: Scenario Mirzapur.  With 'Mirzapur Season 1' stored with clean_title
\* 'mirzapur', search('mirzapur season 2') returns that record, and when
\* 'Mirzapur Season 2' is in the catalog too, the 'Mirzapur Season 1' record
\* is never placed before the 'Mirzapur Season 2' record.
C9_Mirzapur ==
    (/\ Returned
     /\ limit = 20
     /\ query = Q_mirzapur2
     /\ \E m \in movies : m.title = T_Mirzapur1 /\ m.clean_title = C_mirzapur)
    => /\ \E i \in 1..Len(result) : result[i].title = T_Mirzapur1
       /\ (\E m \in movies : m.title = T_Mirzapur2) =>
              \A i, j \in 1..Len(result) :
                  (result[i].title = T_Mirzapur1 /\ result[j].title = T_Mirzapur2) => j < i

MaxOfFive(sc) ==
    LET five == {sc.w_ratio, sc.token_set, sc.token_sort, sc.partial, sc.consonant_partial}
    IN CHOOSE m \in five : \A x \in five : x <= m

\* every token of the cleaned query is a substring of clean_title
ContainsAllTokens(clean_title, qry) ==
    LET toks == Split(clean_text_for_search(qry))
    IN \A k \in 1..Len(toks) : Contains(clean_title, toks[k])

\* the score the claim gives candidate i of the call
ClaimedScore(i) ==
    IF ContainsAllTokens(rk.cands[i].clean_title, rk.query)
    THEN (IF MaxOfFive(rk.S[i]) + 3 > 100 THEN 100 ELSE MaxOfFive(rk.S[i]) + 3)
    ELSE MaxOfFive(rk.S[i])

\* candidate i is in the accepted set, before the cut to 20 entries
IsAccepted(i) == \E k \in 1..Len(rk.accepted) : rk.accepted[k].imdb_id = rk.cands[i].imdb_id

Rebuilt == ret.op = "rebuild_clean_titles" /\ ret.val = "ok"

\* C11: after rebuild_clean_titles completes successfully every record of
\* the catalog has clean_title = clean_text_for_search(title), and the second
\* component of the returned pair is the number of rows.
C11_RebuildUsesClean ==
    Rebuilt =>
        /\ \A m \in movies : m.clean_title = clean_text_for_search(m.title)
        /\ ret.total = Cardinality(movies)

\* no two rows share an imdb_id or a file_id
UniqueKeys ==
    \A m1, m2 \in movies :
        (m1.imdb_id = m2.imdb_id \/ m1.file_id = m2.file_id) => m1 = m2

\* handler h's call of add_movie: with a key that exists it returns
\* "duplicate" and the table stays as it is, otherwise it inserts one row
AddStep(h) ==
    (cmd[h].pc = "add" /\ cmd'[h].pc # "add") =>
        IF \E m \in movies : m.imdb_id = cmd[h].arg.imdb_id \/ m.file_id = cmd[h].arg.file_id
        THEN ret'.val = "duplicate" /\ movies' = movies
        ELSE /\ ret'.val = "True"
             /\ Cardinality(movies') = Cardinality(movies) + 1
             /\ movies \subseteq movies'

\* C12: in every reachable catalog no two records share an imdb_id or a
\* file_id; add_movie with an imdb_id or file_id that exists returns
\* 'duplicate' and leaves the catalog unchanged, also when two calls for one
\* id run after both handlers passed the existence check.
C12_UniqueKeys == [](UniqueKeys) /\ [][\A h \in Handlers : AddStep(h)]_vars

\* both handlers passed the existence check for one imdb_id, one inserted
\* the row and the other's add_movie returned "duplicate"
C12_Witness ==
    /\ cmd["h1"].arg.imdb_id = cmd["h2"].arg.imdb_id
    /\ cmd["h1"].arg # cmd["h2"].arg
    /\ cmd["h1"].reply = "added" /\ cmd["h2"].reply = "added"
    /\ ret.op = "add_movie" /\ ret.val = "duplicate"
    /\ ret.imdb_id = cmd["h1"].arg.imdb_id
    /\ \E m \in movies : m.imdb_id = ret.imdb_id

\* C13: a query of fewer than 2 characters after trimming never reaches
\* super_search_movies_advanced: whenever the search runs, the handler has
\* passed the length check with the query the search was called with, and
\* that query has at least 2 characters.
C13_LengthChecked ==
    pc # "idle" =>
        /\ hd.pc = "wait"
        /\ hd.checked
        /\ query = Strip(hd.text)
        /\ Len(query) >= 2

\* a one-character query was rejected and the search was not called
C13_Witness ==
    /\ hd.pc = "idle"
    /\ hd.reply = "too_short"
    /\ Len(hd.text) = 3 /\ Len(Strip(hd.text)) = 1
    /\ ~hd.checked
    /\ pc = "idle"

\* C14: no-match is not an error.  With an empty catalog, or with an empty
\* candidate list, super_search_movies_advanced returns the empty list for
\* every query, and so does the ranker called with no candidates.
C14_NoMatchIsEmpty ==
    /\ (Returned /\ movies = {}) =>
           (result = <<>> /\ stage \in {"no_tokens", "nomatch"})
    /\ (pc = "done" /\ candidates = <<>> /\ stage # "exact") => result = <<>>
    /\ \A q \in Queries : _process_fuzzy_candidates(<<>>, q, <<>>) = <<>>

\* a search of the empty catalog went through every stage and returned []
C14_Witness ==
    /\ Returned
    /\ movies = {}
    /\ tokens # <<>>
    /\ stage = "nomatch"
    /\ result = <<>>

\* C15: a search that completes with no match produces the 'no match' reply,
\* and a search that fails because the store is unavailable never produces
\* the 'no match' reply.
C15_RepliesDistinguish ==
    /\ (hd.pc = "idle" /\ hd.how \in {"nomatch", "no_tokens"}) => hd.reply = "no_match"
    /\ (hd.pc = "idle" /\ hd.how = "error") => hd.reply # "no_match"

\* what holds of the handler whenever the search call has timed out
TimeoutHandled ==
    /\ (hd.how = "timeout" /\ hd.pc = "reply") => hd.top = <<>>
    /\ (hd.how = "timeout" /\ hd.pc = "idle") => hd.reply = "no_match"
    /\ hd.pc # "wait" => (sem = Permits /\ pc = "idle")
    /\ hd.pc = "wait" => sem = Permits - 1

\* C16: the search runs under the caller's timeout.  When it does not finish
\* in time the caller gets the empty result, the handler ends with the
\* 'no match' reply, the DB semaphore permit is released, and every search
\* call, also one after a timeout, ends with the handler idle again.
C16_TimeoutIsNoResult ==
    /\ []TimeoutHandled
    /\ (hd.pc = "wait") ~> (hd.pc = "idle")

\* after a search of this user timed out, a later search got its results
C16_Witness ==
    /\ hd.timed_out
    /\ hd.pc = "idle"
    /\ hd.how \in {"exact", "fuzzy"}
    /\ hd.reply = "results"
    /\ sem = Permits

\* the fields of a row other than clean_title
Fixed(m) == [m EXCEPT !.clean_title = <<>>]

\* a row that is in the table before and after the step has kept its fields
RowsKeepFields ==
    \A m \in movies : \A n \in movies' :
        n.imdb_id = m.imdb_id => Fixed(n) = Fixed(m)

\* a step of rebuild_clean_titles neither inserts nor deletes a row
RebuildKeepsRows ==
    rb' # rb => {Fixed(m) : m \in movies'} = {Fixed(m) : m \in movies}

\* C17: apart from clean_title, the fields of a record (imdb_id, title, year,
\* file_id, channel_id, message_id) never change between its creation and its
\* deletion under add, remove, search, lookup and rebuild; rebuild_clean_titles
\* changes only clean_title and neither inserts nor deletes records.
C17_FieldsImmutable == [][RowsKeepFields /\ RebuildKeepsRows]_vars

\* rebuild_clean_titles has rewritten the clean_title of a row
C17_Witness ==
    /\ Rebuilt
    /\ ret.updated >= 1
    /\ \E m \in movies : m.clean_title # clean_text_for_search(m.title)

\* what a step of remove_movie_by_imdb does to the table
RemoveStep ==
    (ret'.op = "remove_movie_by_imdb" /\ (ret' # ret \/ movies' # movies)) =>
        IF ret'.val = "True"
        THEN movies' = {m \in movies : m.imdb_id # ret'.imdb_id}
        ELSE movies' = movies

\* get_movie_by_imdb returns None exactly for an id the table does not hold
LookupIsTrue ==
    ret.op = "get_movie_by_imdb" =>
        (ret.val = "None" <=> ret.imdb_id \notin ImdbIds(movies))

\* the last call of the store was a remove_movie_by_imdb that returned True
Removed == ret.op = "remove_movie_by_imdb" /\ ret.val = "True"

\* C18 as stated: after remove_movie_by_imdb(id) returns True the id is not
\* in the table and no search returns it.
C18_RemovedNeverReturned ==
    Removed =>
        /\ ret.imdb_id \notin ImdbIds(movies)
        /\ (pc = "done" => ~InResult(ret.imdb_id))

\* C18: deletion is physical and scoped to one record.  After
\* remove_movie_by_imdb(id) returns True the table holds no row with id,
\* get_movie_by_imdb(id) returns None, no search that ran after the removal
\* returns id, and every other row is unchanged; when it returns False the
\* table is unchanged.
C18_RemovalScoped ==
    /\ [](Removed => ret.imdb_id \notin ImdbIds(movies))
    /\ [](LookupIsTrue)
    /\ []((Removed /\ Returned) => ~InResult(ret.imdb_id))
    /\ [](Returned => \A i \in 1..Len(result) : result[i].imdb_id \in ImdbIds(movies))
    /\ [][RemoveStep]_vars

\* a row was deleted; a search that ran after it returned the other row
C18_Witness ==
    /\ Removed
    /\ ret.movie # {}
    /\ Returned
    /\ result # <<>>

\* the thresholds the ranker is compared at
Thresholds == {0, 48, 50, 63, 75, 100, 101}

\* the number of entries the ranker returns for the call with threshold t
CountAt(t) == Len(RankAt(rk.cands, rk.query, rk.S, t))

\* C19: threshold monotonicity.  For a fixed candidate list and query the
\* ranker with threshold t2 returns no more entries than with threshold t1
\* whenever t2 >= t1, the cut to 20 entries applied in both cases.
C19_ThresholdMonotone ==
    rk.called =>
        LET count == [t \in Thresholds |-> CountAt(t)]
        IN \A t1, t2 \in Thresholds : t1 <= t2 => count[t2] <= count[t1]

\* a call where the cut to 20 entries applies at the threshold 50 and a
\* higher threshold returns fewer entries
C19_Witness ==
    /\ rk.called
    /\ Len(rk.accepted) > MaxFinal
    /\ CountAt(50) = MaxFinal
    /\ CountAt(75) < CountAt(50)
    /\ CountAt(75) > 0

\* the entry of results that candidate i of the call was scored into
ScoredAs(i, r) == r.imdb_id = rk.cands[i].imdb_id

\* C20: bonus correctness.  For every scored candidate whose clean_title
\* contains every non-empty query token the final score is at least the
\* maximum of its similarity scores and at most 100; for every other scored
\* candidate the final score equals that maximum.
C20_BonusCorrect ==
    rk.called =>
        \A i \in 1..Len(rk.cands) : \A k \in 1..Len(rk.results) :
            ScoredAs(i, rk.results[k]) =>
                IF ContainsAllTokens(rk.cands[i].clean_title, rk.query)
                THEN /\ rk.results[k].score >= MaxOfFive(rk.S[i])
                     /\ rk.results[k].score <= 100
                ELSE rk.results[k].score = MaxOfFive(rk.S[i])

\* one candidate holds the token and its bonus was cut at 100, another one
\* does not hold it and kept its base score
C20_Witness ==
    /\ rk.called
    /\ \E i \in 1..Len(rk.cands) : \E k \in 1..Len(rk.results) :
          /\ ScoredAs(i, rk.results[k])
          /\ ContainsAllTokens(rk.cands[i].clean_title, rk.query)
          /\ MaxOfFive(rk.S[i]) = 100
          /\ rk.results[k].score = 100
    /\ \E i \in 1..Len(rk.cands) : \E k \in 1..Len(rk.results) :
          /\ ScoredAs(i, rk.results[k])
          /\ ~ContainsAllTokens(rk.cands[i].clean_title, rk.query)
          /\ rk.results[k].score = MaxOfFive(rk.S[i])

----------------------------------------------------------------------------
(* SpecPunct: queries of punctuation only, given to the search over the    *)
(* catalog of SpecBot and to the ranker directly                           *)

Q_bang == <<"!">>

PunctQueries == { Q_bang, <<"!", "?">>, <<" ", "-", " ">>, Q_titanic, Q_mirza, Q_zapur }

\* those of them that clean_text_for_search turns into ''
EmptyQueries == {q \in PunctQueries : clean_text_for_search(q) = <<>>}

NextPunct ==
    \/ \E q \in PunctQueries : Search(q, SearchLimit)
    \/ ExactMatch
    \/ PrefixAll
    \/ PrefixAny
    \/ Fallback
    \/ Fuzzy
    \/ SearchReturn
    \/ \E cands \in RankLists, qry \in EmptyQueries : RankCall(cands, qry)

SpecPunct == InitBot /\ [][NextPunct]_vars

----------------------------------------------------------------------------
(* SpecRetry: the retry loop of the Database operations, called one after  *)
(* another, with a store that can raise at every attempt                   *)

\* isinstance(e, (OperationalError, DisconnectionError))
ConnErrors == {"OperationalError", "DisconnectionError"}

\* what a statement of the try block can raise and `except Exception` catches
Raised == ConnErrors \cup {"ProgrammingError"}

\* an error handler that re-creates the engine for every kind of error
HandleAnyError(err, reinit) == reinit

\* lines 172-195: reinit is whether dispose and create_async_engine went through
_handle_db_error(err, reinit) == err \in ConnErrors /\ reinit

RetryOps == {"add_movie", "remove_movie_by_imdb", "get_movie_by_imdb", "get_movie_count"}

\* the return statement of the except branch
FailureValue(op) ==
    CASE op = "add_movie" -> "False"
      [] op = "remove_movie_by_imdb" -> "False"
      [] op = "get_movie_by_imdb" -> "None"
      [] op = "get_movie_count" -> "0"

RetryInputs == {a \in AddInputs : a.file_id \in {"f3", "f4"}}

\* the call enters `for attempt in range(max_retries)`
CallStart(op, a) ==
    /\ call.pc = "idle"
    /\ call' = [NoCall EXCEPT !.op = op, !.pc = "try",
                              !.arg = IF op = "get_movie_count" THEN NoArg ELSE a]
    /\ UNCHANGED <<searchVars, dbVars, cleanVars, botVars, besidesCall>>

\* the try block runs to its return statement; in add_movie an
\* IntegrityError is caught by its own except branch (lines 440-445)
CallBody ==
    /\ call.pc = "try"
    /\ CASE call.op = "add_movie" -> AddMovieCall(call.arg)
         [] call.op = "remove_movie_by_imdb" ->
               /\ Committed({m \in movies : m.imdb_id # call.arg.imdb_id})
               /\ ret' = [op |-> call.op, imdb_id |-> call.arg.imdb_id,
                          val |-> "True", movie |-> {}]
         [] call.op = "get_movie_by_imdb" ->
               /\ GetMovieCall(call.arg.imdb_id)
               /\ Committed(movies)
         [] call.op = "get_movie_count" ->
               /\ ret' = [op |-> call.op, imdb_id |-> "",
                          val |-> ToString(Cardinality(movies)), movie |-> {}]
               /\ Committed(movies)
    /\ call' = [call EXCEPT !.pc = "idle",
                            !.error = IF ret'.val = "duplicate"
                                      THEN "IntegrityError" ELSE "none"]
    /\ UNCHANGED <<pc, query, limit, q_clean, tokens, candidates, result, stage, attempt>>
    /\ UNCHANGED <<cleanVars, botVars, besidesCall>>

\* `except Exception as e`: a statement of the try block raised err; the
\* transaction is rolled back; the loop continues or the call returns its
\* failure value
CallExcept(err, reinit) ==
    /\ call.pc = "try"
    /\ IF _handle_db_error(err, reinit) /\ call.attempt < max_retries - 1
       THEN /\ call' = [call EXCEPT !.attempt = @ + 1, !.first = err, !.reinit = reinit]
            /\ UNCHANGED ret
       ELSE /\ call' = [call EXCEPT !.pc = "idle", !.error = err,
                                    !.first = IF call.attempt = 0 THEN err ELSE @]
            /\ ret' = [op |-> call.op, imdb_id |-> call.arg.imdb_id,
                       val |-> FailureValue(call.op), movie |-> {}]
    /\ UNCHANGED <<movies, searchVars, cleanVars, botVars, besidesCall>>

InitRetry ==
    /\ text = <<>>
    /\ cleaned = <<>>
    /\ recleaned = <<>>
    /\ cphase = "input"
    /\ DbIdle

\* no Database call is running: the caller makes its calls one after another
Quiet == call.pc = "idle" /\ rb.pc = "idle" /\ pc = "idle"

NextRetry ==
    \/ Quiet /\ \E op \in RetryOps, a \in RetryInputs : CallStart(op, a)
    \/ CallBody
    \/ \E err \in Raised, reinit \in BOOLEAN : CallExcept(err, reinit)
    \/ (Quiet \/ rb.pc # "idle") /\ rebuild_count
    \/ rebuild_update
    \/ (Quiet \/ rb.pc # "idle") /\ \E reinit \in BOOLEAN : rebuild_error(reinit)
    \/ Quiet /\ \E q \in StoreQueries : Search(q, SearchLimit)
    \/ ExactMatch
    \/ PrefixAll
    \/ PrefixAny
    \/ Fallback
    \/ Fuzzy
    \/ \E reinit \in BOOLEAN : SearchError(reinit)
    \/ SearchReturn

SpecRetry == InitRetry /\ [][NextRetry]_vars

----------------------------------------------------------------------------
(* SpecBoot: init_db at start-up, with a store that can raise at every     *)
(* attempt; boot.log holds, for every failed attempt, the error and        *)
(* whether the engine could be re-created                                  *)

\* line 199: max_retries = 3
init_max_retries == 3

\* a loop that never re-raises
LastAttemptNever(a) == FALSE

\* line 211: attempt == max_retries - 1
LastAttempt(a) == a = init_max_retries - 1

\* line 241: lifespan calls db.init_db()
InitDbStart ==
    /\ boot.pc = "idle"
    /\ boot' = [boot EXCEPT !.pc = "try"]
    /\ UNCHANGED <<searchVars, dbVars, cleanVars, botVars, besidesBoot>>

\* lines 202-205: create_all goes through, `return`
InitDbCreate ==
    /\ boot.pc = "try"
    /\ boot' = [boot EXCEPT !.pc = "returned", !.tables = TRUE]
    /\ UNCHANGED <<searchVars, dbVars, cleanVars, botVars, besidesBoot>>

\* lines 206-212: create_all raises err.  `continue`, or `raise` at the
\* last attempt, or the except block ends and the for loop goes on; a loop
\* that runs out returns None
InitDbExcept(err, reinit) ==
    /\ boot.pc = "try"
    /\ LET logged == [boot EXCEPT !.log = Append(@, [err |-> err, reinit |-> reinit])]
       IN boot' =
            IF _handle_db_error(err, reinit) /\ boot.attempt < init_max_retries - 1
            THEN [logged EXCEPT !.attempt = @ + 1]
            ELSE IF LastAttempt(boot.attempt)
            THEN [logged EXCEPT !.pc = "raised", !.error = err]
            ELSE IF boot.attempt + 1 < init_max_retries
            THEN [logged EXCEPT !.attempt = @ + 1]
            ELSE [logged EXCEPT !.pc = "returned"]
    /\ UNCHANGED <<searchVars, dbVars, cleanVars, botVars, besidesBoot>>

NextBoot ==
    \/ InitDbStart
    \/ InitDbCreate
    \/ \E err \in Raised, reinit \in BOOLEAN : InitDbExcept(err, reinit)

SpecBoot == InitRetry /\ [][NextBoot]_vars

----------------------------------------------------------------------------
(* SpecSem: safe_db_call called by more tasks than DB_SEMAPHORE has        *)
(* permits                                                                 *)

\* how a task leaves `async with DB_SEMAPHORE`: the operation returns, it
\* raises, wait_for times out, or the task is cancelled from outside
Exits == {"returned", "raised", "timeout", "cancelled"}

\* an `async with` that keeps the permit when wait_for timed out
ReleasedUnlessTimeout(how) == IF how = "timeout" THEN 0 ELSE 1

\* Semaphore.__aexit__ releases one permit on every exit
Released(how) == 1

\* line 119: a handler calls safe_db_call(coro)
SafeDbCall(t) ==
    /\ task[t] = "idle"
    /\ task' = [task EXCEPT ![t] = "wait"]
    /\ UNCHANGED <<searchVars, dbVars, cleanVars, botVars, besidesTask>>

\* line 121: `async with DB_SEMAPHORE` gets a permit
SafeDbAcquire(t) ==
    /\ task[t] = "wait"
    /\ sem > 0
    /\ sem' = sem - 1
    /\ task' = [task EXCEPT ![t] = "run"]
    /\ UNCHANGED <<searchVars, dbVars, cleanVars, rb, cmd, hd, besidesTask>>

\* the handler is cancelled (handler_timeout) while it waits for a permit
SafeDbGiveUp(t) ==
    /\ task[t] = "wait"
    /\ task' = [task EXCEPT ![t] = "idle"]
    /\ UNCHANGED <<searchVars, dbVars, cleanVars, botVars, besidesTask>>

\* lines 121-128: the block is left, safe_db_call returns the value or default
SafeDbExit(t, how) ==
    /\ task[t] = "run"
    /\ sem' = sem + Released(how)
    /\ task' = [task EXCEPT ![t] = "idle"]
    /\ UNCHANGED <<searchVars, dbVars, cleanVars, rb, cmd, hd, besidesTask>>

NextSem ==
    \/ \E t \in Tasks : SafeDbCall(t)
    \/ \E t \in Tasks : SafeDbAcquire(t)
    \/ \E t \in Tasks : SafeDbGiveUp(t)
    \/ \E t \in Tasks, how \in Exits : SafeDbExit(t, how)

SpecSem == InitRetry /\ [][NextSem]_vars

----------------------------------------------------------------------------
(* SpecIndex: main.py, sync_add_movie_to_db_and_algolia called for channel *)
(* posts, one call after another, with a database and an Algolia service   *)
(* that can fail                                                           *)

\* the channel posts: message_id and first line of the caption
Posts ==
    { [post_id |-> 101, title |-> <<"A">>],
      [post_id |-> 102, title |-> <<" ", "B", " ">>],
      [post_id |-> 103, title |-> <<"A">>] }

\* lines 238-240, 242: ready is whether algolia_index and SessionLocal are set
IndexStart(p, ready) ==
    /\ idx.pc = "idle"
    /\ idx' = IF ready
              THEN [idx EXCEPT !.pc = "check", !.title = p.title,
                               !.post_id = p.post_id, !.new_id = 0, !.ret = "none"]
              ELSE [idx EXCEPT !.title = p.title, !.post_id = p.post_id,
                               !.new_id = 0, !.ret = "False"]
    /\ UNCHANGED <<searchVars, dbVars, cleanVars, botVars, besidesIdx>>

\* lines 244-248: the duplicate check by post_id; ok is whether the query
\* went through
IndexCheck(ok) ==
    /\ idx.pc = "check"
    /\ idx' = IF ~ok \/ \E r \in idx.rows : r.post_id = idx.post_id
              THEN [idx EXCEPT !.pc = "idle", !.ret = "False"]
              ELSE [idx EXCEPT !.pc = "add"]
    /\ UNCHANGED <<searchVars, dbVars, cleanVars, botVars, besidesIdx>>

\* lines 250-254: add, commit, refresh; when the commit raises, the except
\* branch rolls back and returns False
IndexCommit(ok) ==
    /\ idx.pc = "add"
    /\ idx' = IF ok
              THEN LET id == Cardinality(idx.rows) + 1
                   IN [idx EXCEPT !.pc = "save", !.new_id = id,
                                  !.rows = @ \cup {[id |-> id, title |-> Strip(idx.title),
                                                    post_id |-> idx.post_id]}]
              ELSE [idx EXCEPT !.pc = "idle", !.ret = "False"]
    /\ UNCHANGED <<searchVars, dbVars, cleanVars, botVars, besidesIdx>>

\* lines 256-274: save_object; when it raises, the except branch calls
\* rollback, which undoes nothing of the committed row, and returns False
IndexSave(ok) ==
    /\ idx.pc = "save"
    /\ idx' = IF ok
              THEN [idx EXCEPT !.pc = "idle", !.ret = "True",
                               !.objects = @ \cup {[objectID |-> ToString(idx.new_id),
                                                    title |-> Strip(idx.title),
                                                    post_id |-> idx.post_id]}]
              ELSE [idx EXCEPT !.pc = "idle", !.ret = "False"]
    /\ UNCHANGED <<searchVars, dbVars, cleanVars, botVars, besidesIdx>>

NextIndex ==
    \/ \E p \in Posts, ready \in BOOLEAN : IndexStart(p, ready)
    \/ \E ok \in BOOLEAN : IndexCheck(ok)
    \/ \E ok \in BOOLEAN : IndexCommit(ok)
    \/ \E ok \in BOOLEAN : IndexSave(ok)

SpecIndex == InitRetry /\ [][NextIndex]_vars

----------------------------------------------------------------------------
(* SpecRate: main.py, check_rate_limit called for two users while the      *)
(* clock advances                                                          *)

\* a check that stores the time of a rejected action too
RecordedAlways(rejected, s, current_time) ==
    [has |-> TRUE, last_action |-> current_time]

\* lines 190-191: the session after the check
Recorded(rejected, s, current_time) ==
    IF rejected THEN s ELSE [has |-> TRUE, last_action |-> current_time]

\* time passes
Tick ==
    /\ rl.now < StartTime + MaxTime
    /\ rl' = [rl EXCEPT !.now = @ + 1, !.op = "tick"]
    /\ UNCHANGED <<searchVars, dbVars, cleanVars, botVars, besidesRl>>

\* line 416: send_movie_link reads user_sessions[user_id], which creates
\* the session of a user who has none
SessionTouch(u) ==
    /\ rl' = [rl EXCEPT !.sessions[u].has = TRUE, !.op = "touch"]
    /\ UNCHANGED <<searchVars, dbVars, cleanVars, botVars, besidesRl>>

\* lines 187-192
check_rate_limit(user_id) ==
    /\ LET current_time == rl.now
           s == rl.sessions[user_id]
           rejected == s.has /\
                       current_time - s.last_action < RATE_LIMIT_SECONDS * TicksPerSecond
       IN rl' = [rl EXCEPT !.sessions[user_id] = Recorded(rejected, s, current_time),
                           !.op = "check", !.user = user_id, !.ret = ~rejected]
    /\ UNCHANGED <<searchVars, dbVars, cleanVars, botVars, besidesRl>>

NextRate ==
    \/ Tick
    \/ \E u \in Users : SessionTouch(u)
    \/ \E u \in Users : check_rate_limit(u)

SpecRate == InitRetry /\ [][NextRate]_vars

----------------------------------------------------------------------------
(* SpecHook: bot_webhook answering requests with and without the secret    *)
(* token, and the background tasks it schedules                            *)

\* values of the environment variable WEBHOOK_SECRET: unset, set
Secrets == {"", "s3cret"}

\* values of the header X-Telegram-Bot-Api-Secret-Token: absent, wrong, right
Headers == {"", "guess", "s3cret"}

\* line 45: WEBHOOK_SECRET = os.getenv("WEBHOOK_SECRET", "")
HookImport(s) ==
    /\ wh.pc = "import"
    /\ wh' = [wh EXCEPT !.pc = "idle", !.secret = s]
    /\ UNCHANGED <<searchVars, dbVars, cleanVars, botVars, besidesWh>>

\* line 285: a POST arrives; valid is whether its body is a Telegram Update
HookReceive(header, valid) ==
    /\ wh.pc = "idle"
    /\ wh.requests < MaxRequests
    /\ wh' = [wh EXCEPT !.pc = "check", !.header = header, !.valid = valid,
                        !.raised = "none", !.status = 0, !.ok = FALSE, !.added = 0,
                        !.requests = @ + 1]
    /\ UNCHANGED <<searchVars, dbVars, cleanVars, botVars, besidesWh>>

\* lines 287-290: the token check, `raise HTTPException(status_code=403)`
HookCheck ==
    /\ wh.pc = "check"
    /\ wh' = IF wh.secret # "" /\ wh.header # wh.secret
             THEN [wh EXCEPT !.pc = "except", !.raised = "HTTPException"]
             ELSE [wh EXCEPT !.pc = "parse"]
    /\ UNCHANGED <<searchVars, dbVars, cleanVars, botVars, besidesWh>>

\* lines 292-301: Update(**update), add_task, `return {"ok": True}`
HookSchedule ==
    /\ wh.pc = "parse"
    /\ wh' = IF wh.valid
             THEN [wh EXCEPT !.pc = "idle", !.status = 200, !.ok = TRUE,
                             !.added = @ + 1, !.tasks = @ + 1]
             ELSE [wh EXCEPT !.pc = "except", !.raised = "ValidationError"]
    /\ UNCHANGED <<searchVars, dbVars, cleanVars, botVars, besidesWh>>

\* lines 302-304: `except Exception` catches what the try block raised,
\* HTTPException included, and the handler returns {"ok": False}
HookExcept ==
    /\ wh.pc = "except"
    /\ wh' = [wh EXCEPT !.pc = "idle", !.status = 200, !.ok = FALSE]
    /\ UNCHANGED <<searchVars, dbVars, cleanVars, botVars, besidesWh>>

\* lines 278-282, 294-298: a background task feeds its update to the dispatcher
HookTask ==
    /\ wh.tasks > 0
    /\ wh' = [wh EXCEPT !.tasks = @ - 1, !.fed = @ + 1]
    /\ UNCHANGED <<searchVars, dbVars, cleanVars, botVars, besidesWh>>

NextHook ==
    \/ \E s \in Secrets : HookImport(s)
    \/ \E header \in Headers, valid \in BOOLEAN : HookReceive(header, valid)
    \/ HookCheck
    \/ HookSchedule
    \/ HookExcept
    \/ HookTask

SpecHook == InitRetry /\ [][NextHook]_vars

----------------------------------------------------------------------------
(* C21: the search does not retry internally.  Once a store query of a     *)
(* call of super_search_movies_advanced has failed, that call issues no    *)
(* further store query: the body of the call never runs a second time, so  *)
(* the attempt counter of the retry loop stays 0.                          *)
C21_NoInternalRetry ==
    attempt = 0

----------------------------------------------------------------------------
\* the query normalizes to the empty string
CleansToEmpty(qry) == clean_text_for_search(qry) = <<>>

(* C22: for a query that normalizes to the empty string the token list is  *)
(* empty, no candidate receives the all-tokens bonus (no candidate is      *)
(* scored at all) and the result is the empty list, both when the ranker   *)
(* is called directly and when the query goes through                      *)
(* super_search_movies_advanced, which then fetches no candidate.          *)
C22_EmptyQueryEmptyResult ==
    /\ (rk.called /\ CleansToEmpty(rk.query)) =>
          /\ Split(clean_text_for_search(rk.query)) = <<>>
          /\ rk.results = <<>>
          /\ rk.final = <<>>
    /\ (pc = "done" /\ CleansToEmpty(query)) =>
          /\ tokens = <<>>
          /\ candidates = <<>>
          /\ result = <<>>

\* the ranker was called with '!' and a candidate that has a clean_title and
\* a score of 60, and a search of '!' over a catalog with rows has finished
C22_Witness ==
    /\ rk.called /\ CleansToEmpty(rk.query)
    /\ \E i \in 1..Len(rk.cands) :
          rk.cands[i].clean_title # <<>> /\ MaxOfFive(rk.S[i]) >= Threshold
    /\ pc = "done" /\ CleansToEmpty(query) /\ query # <<>> /\ movies # {}

----------------------------------------------------------------------------
\* no imdb_id is at two positions of the list
NoRepeat(list) ==
    \A i, j \in 1..Len(list) : list[i].imdb_id = list[j].imdb_id => i = j

(* C23: the list super_search_movies_advanced returns is deduplicated: no  *)
(* imdb_id appears in it more than once, also when a record matches more   *)
(* than one of the narrowing stages; the candidates it collects on the way *)
(* hold no imdb_id twice either.                                           *)
C23_Deduplicated ==
    /\ NoRepeat(candidates)
    /\ pc = "done" => NoRepeat(result)
    /\ last.valid => NoRepeat(last.result)

\* a search returns from the fuzzy stage a record that the all-token prefix
\* query and the any-token prefix query both select
C23_Witness ==
    /\ pc = "done" /\ stage = "fuzzy" /\ stable
    /\ \E k \in 1..Len(result) :
          \E r \in PrefixAllRows(tokens) \cap PrefixAnyRows(tokens) :
              r.imdb_id = result[k].imdb_id
    /\ Len(candidates) < limit

----------------------------------------------------------------------------
(* C24: the bot reports a movie as added only if add_movie inserted a new  *)
(* record: when a handler's add_movie call ends with the success reply,    *)
(* the call returned True and the catalog gained that record; a call that  *)
(* returned 'duplicate' is not reported as an addition.                    *)
C24_AddedOnlyIfInserted ==
    [][\A h \in Handlers :
          (cmd[h].pc = "add" /\ cmd'[h].reply = "added") =>
              /\ ret'.val = "True"
              /\ \E m \in movies' \ movies : m.imdb_id = cmd[h].arg.imdb_id]_vars

----------------------------------------------------------------------------
\* no retry loop goes beyond its second attempt
AtMostTwoAttempts ==
    /\ call.attempt <= 1
    /\ attempt <= 1
    /\ rb.attempt <= 1

\* a second attempt follows only a first attempt that failed with a
\* connection error after which the engine was re-created
RetryOnlyAfterReinit ==
    /\ call'.attempt # call.attempt /\ call'.pc = "try" /\ call.pc = "try" =>
          /\ call.attempt = 0 /\ call'.attempt = 1
          /\ call'.first \in ConnErrors
          /\ call'.reinit
    /\ attempt' # attempt /\ pc' # "idle" /\ pc # "idle" => attempt = 0 /\ attempt' = 1
    /\ rb'.attempt # rb.attempt /\ rb'.pc = "retry" => rb.attempt = 0 /\ rb'.attempt = 1

\* the call ends in this step
CallEnds == call.pc = "try" /\ call'.pc = "idle"

\* a search or a rebuild that ends in its except branch returns [] or (0, 0)
SearchAndRebuildFail ==
    /\ stage' = "error" /\ stage # "error" => result' = <<>> /\ pc' = "done"
    /\ rb.pc # "idle" /\ rb'.pc = "idle" /\ ret'.val = "error" =>
          ret'.updated = 0 /\ ret'.total = 0

----------------------------------------------------------------------------
(* C26: init_db makes at most 3 attempts to create the tables; it returns  *)
(* normally only after an attempt succeeded, so never without the tables;  *)
(* when all 3 attempts failed it raises the error of the last attempt,     *)
(* whatever the kinds of the errors were and whether or not the engine     *)
(* could be re-created; and it raises in no other case.                    *)
C26_InitDbThreeAttempts ==
    /\ boot.attempt <= 2 /\ Len(boot.log) <= 3
    /\ boot.pc = "returned" => boot.tables /\ Len(boot.log) <= 2
    /\ boot.pc = "raised" =>
          /\ Len(boot.log) = 3
          /\ boot.error = boot.log[3].err
          /\ ~boot.tables
    /\ boot.pc = "try" => Len(boot.log) = boot.attempt /\ ~boot.tables

\* init_db raised after three attempts that failed with an error that is no
\* connection error, a connection error with the engine re-created, and a
\* connection error with the engine not re-created
C26_Witness ==
    /\ boot.pc = "raised"
    /\ boot.log[1].err \notin ConnErrors
    /\ boot.log[2].err \in ConnErrors /\ boot.log[2].reinit
    /\ boot.log[3].err \in ConnErrors /\ ~boot.log[3].reinit

----------------------------------------------------------------------------
\* the tasks that hold a permit
InFlight == {t \in Tasks : task[t] = "run"}

(* C27: at any moment at most 10 operations wrapped by safe_db_call are in *)
(* flight; every permit that is not free is held by a task inside the      *)
(* block, so once all calls have finished all 10 permits are free again;   *)
(* and a task that waits for a permit while no call is in flight can get   *)
(* one.                                                                    *)
C27_PermitsConserved ==
    /\ Cardinality(InFlight) <= Permits
    /\ sem >= 0
    /\ sem + Cardinality(InFlight) = Permits
    /\ (\A t \in Tasks : task[t] = "idle") => sem = Permits
    /\ (\E t \in Tasks : task[t] = "wait") /\ InFlight = {} => sem > 0

\* all permits are taken and one more task waits
C27_Witness ==
    /\ Cardinality(InFlight) = Permits
    /\ sem = 0
    /\ \E t \in Tasks : task[t] = "wait"

----------------------------------------------------------------------------
(* C28: sync_add_movie_to_db_and_algolia keeps the database and the        *)
(* Algolia index consistent.  Whenever no call is running, a Movie row     *)
(* with a post_id exists if and only if an Algolia object for that post_id *)
(* was saved, there is at most one row per post_id, and a call that        *)
(* returned True has written both.                                         *)
C28_DbAndIndexConsistent ==
    idx.pc = "idle" =>
        /\ {r.post_id : r \in idx.rows} = {o.post_id : o \in idx.objects}
        /\ \A r, s \in idx.rows : r.post_id = s.post_id => r = s
        /\ idx.ret = "True" =>
              /\ \E r \in idx.rows : r.post_id = idx.post_id
              /\ \E o \in idx.objects : o.post_id = idx.post_id

----------------------------------------------------------------------------
\* this step is a call check_rate_limit(u)
RateStep(u) == rl'.op = "check" /\ rl'.user = u /\ rl' # rl

(* C29: check_rate_limit enforces per-user spacing.  last_action of a user *)
(* is the time of the user's last accepted action; an action is accepted   *)
(* exactly when it is the user's first or comes at least                   *)
(* RATE_LIMIT_SECONDS after the last accepted one, so two accepted actions *)
(* of a user are at least RATE_LIMIT_SECONDS apart; a rejected action      *)
(* leaves last_action as it is; and a call for one user changes nothing of *)
(* another user's session.                                                 *)
C29_RateLimitPerUser ==
    [][\A u \in Users :
          LET s == rl.sessions[u]
              t == rl'.sessions[u]
          IN IF RateStep(u)
             THEN /\ rl'.ret <=> (s.last_action = 0 \/
                                  rl.now - s.last_action >= RATE_LIMIT_SECONDS * TicksPerSecond)
                  /\ rl'.ret => t.last_action = rl.now
                  /\ ~rl'.ret => t = s
                  /\ \A v \in Users \ {u} : rl'.sessions[v] = rl.sessions[v]
             ELSE (\A v \in Users : ~RateStep(v)) => t.last_action = s.last_action]_vars

\* user 1 is rejected half a second after an accepted action, at the moment
\* at which user 2, who had a session without last_action, was accepted
C29_Witness ==
    /\ rl.op = "check" /\ rl.user = 1 /\ ~rl.ret
    /\ rl.sessions[1].last_action = rl.now - 1
    /\ rl.sessions[2].last_action = rl.now
    /\ rl.now > StartTime + TicksPerSecond

----------------------------------------------------------------------------
\* bot_webhook has answered a request
Answered == wh.pc = "idle" /\ wh.requests > 0

(* C30: when WEBHOOK_SECRET is set, a request whose secret-token header    *)
(* differs from it is never fed to the dispatcher (no task is scheduled    *)
(* for it) and is answered with HTTP 403 Forbidden; a request with the     *)
(* matching token is scheduled for processing exactly once.                *)
C30_WrongTokenForbidden ==
    (Answered /\ wh.secret # "") =>
        IF wh.header # wh.secret
        THEN wh.added = 0 /\ wh.status = 403
        ELSE wh.added = 1

====
